---- MODULE Spec2Model ----
(***************************************************************************)
(* Request-governance layer of the about-us scraper API:                   *)
(*   - RateLimiter / RateLimitMiddleware  (api/middleware/rate_limit.py)   *)
(*   - retryable decorator, retry_async, RetryContext (api/utils/retry.py) *)
(*                                                                         *)
(* Time is counted in ticks of 1/TicksPerSec second.  Token counts are     *)
(* kept exactly, in units of 1/(60*TicksPerSec) token, so that the refill  *)
(* of one tick (rate / TicksPerSec tokens) is requests_per_minute units.   *)
(*                                                                         *)
(* Request tasks are asyncio tasks: every `await` of is_allowed and of      *)
(* __call__ is a point where another task may run and where time may pass. *)
(* hist, resp, overlap, rej and waited record what the limiter did; no     *)
(* action reads them to decide anything.                                   *)
(***************************************************************************)
EXTENDS Integers, Sequences, FiniteSets, TLC

\* ---------------------------------------------------------------- bounds
TicksPerSec == 2
MaxTime == 4
ExtraReq == 2
NumTasks == 2
MaxAttempts == 3
JitterResolution == 4
MaxItems == 5
MaxLimit == 3
MaxForged == 1
MaxUuids == 6
MaxChunks == 2
MaxVersionPart == 2
MaxKeyChars == 36
MaxMsgs == 3

\* ------------------------------------------------------- program constants
SecondsPerMinute == 60
B64Group == 4
max_content_length == 10485760
minimum_size == 1000
FullQuality == 10

Min(a, b) == IF a <= b THEN a ELSE b

Keys == {"10.0.0.1", "10.0.0.2"}
Tasks == 1..NumTasks
NoEntry == [present |-> FALSE]
NoTask == 0

\* The limiters and workloads under study: RateLimiter(requests_per_minute,
\* burst_limit), the client keys that send requests and the request tasks
\* that serve them concurrently.
Scenarios ==
  { [requests_per_minute |-> 60, burst_limit |-> 5,
     clients |-> {"10.0.0.1"}, workers |-> {1}],
    [requests_per_minute |-> 60, burst_limit |-> 1,
     clients |-> {"10.0.0.1"}, workers |-> Tasks],
    [requests_per_minute |-> 30, burst_limit |-> 2,
     clients |-> Keys, workers |-> {1}] }

VARIABLES
  requests_per_minute, \* RateLimiter configuration
  burst_limit,
  clients,             \* the keys that send requests
  workers,             \* the tasks that serve requests
  now,                 \* time.time(), in ticks
  tokens,              \* RateLimiter.tokens: key -> (tokens, last_update)
  lock,                \* RateLimiter._lock: the task holding it, or NoTask
  pc,                  \* position of each request task in __call__
  rkey,                \* key_func(request) of the task's request
  ltokens,             \* local `tokens` of is_allowed
  lnow,                \* local `now` of is_allowed
  reqCount,            \* requests started so far
  hist,                \* per key: the is_allowed outcomes, in order
  resp,                \* per key: the responses sent, in order
  overlap,             \* per key: two requests of the key were in flight together
  rej,                 \* per key: the last 429 when nothing followed it
  waited               \* per task: started after waiting out rej's Retry-After

rlVars == <<requests_per_minute, burst_limit, clients, workers, now, tokens, lock, pc, rkey,
            ltokens, lnow, reqCount, hist, resp, overlap, rej, waited>>

VARIABLES
  impl,                 \* the entry point in use
  max_attempts, initial_delay, max_delay, exponential_base, jitter,
  retryable_exceptions, \* the decorator's retryable_exceptions
  rpc,                  \* position of the retry run
  attempt,              \* the loop variable / RetryContext.attempt
  last_exception,       \* last_exception / last_error
  execs,                \* the executions of the operation and their outcomes
  sleeps,               \* the delays passed to asyncio.sleep, in order
  raised,               \* the exception that left the entry point
  cancelledAt           \* the enclosing task was cancelled: what had run by then

retryVars == <<impl, max_attempts, initial_delay, max_delay, exponential_base, jitter,
               retryable_exceptions, rpc, attempt, last_exception, execs, sleeps, raised,
               cancelledAt>>
policyVars == <<impl, max_attempts, initial_delay, max_delay, exponential_base, jitter,
                retryable_exceptions>>

VARIABLES
  pgImpl,               \* Paginator.paginate or api.utils.pagination.paginate_items
  items,                \* the sequence being paginated
  items_per_page,       \* Paginator.items_per_page / limit
  pgCursor,             \* the next_cursor the client holds
  pgState,              \* "ready", "done" (has_more false) or "failed"
  pages,                \* the calls made so far and their results
  pgFollowed,           \* every call so far used the cursor returned before it
  pgForged              \* calls made with a cursor of the client's own making

pgVars == <<pgImpl, items, items_per_page, pgCursor, pgState, pages, pgFollowed, pgForged>>

VARIABLES
  uuidCount,            \* uuid.uuid4() calls made so far
  exchange              \* the last request and the response sent for it

appVars == <<uuidCount, exchange>>

VARIABLES
  cmImpl,               \* which CompressionMiddleware is installed
  compressed            \* the last response the middleware handled, and what it sent

cmVars == <<cmImpl, compressed>>

VARIABLES
  verImpl,              \* which version gate is installed
  min_version,          \* VersionManager.min_version
  max_version,          \* VersionManager.max_version
  handlers,             \* versions a handler of the requested path is registered for
  gated                 \* the last request the gate handled and its outcome

verVars == <<verImpl, min_version, max_version, handlers, gated>>

VARIABLES
  keyed                 \* the last validate_api_key call: its argument and result

VARIABLES
  asgiStack,            \* the middlewares wrapped around the handler, outermost first
  asgi                  \* the last call of that ASGI application and what came of it

asgiVars == <<asgiStack, asgi>>

\* the variables of the other components, as seen from each one
notRL == <<retryVars, pgVars, appVars, cmVars, verVars, keyed, asgiVars>>
notRetry == <<rlVars, pgVars, appVars, cmVars, verVars, keyed, asgiVars>>
notPg == <<rlVars, retryVars, appVars, cmVars, verVars, keyed, asgiVars>>
notApp == <<retryVars, pgVars, cmVars, verVars, keyed, asgiVars>>
notCm == <<rlVars, retryVars, pgVars, appVars, verVars, keyed, asgiVars>>
notVer == <<rlVars, retryVars, pgVars, appVars, cmVars, keyed, asgiVars>>
notKey == <<rlVars, retryVars, pgVars, appVars, cmVars, verVars, asgiVars>>
notAsgi == <<rlVars, retryVars, pgVars, appVars, cmVars, verVars, keyed>>

\* one whole token, in token units
ONE == SecondsPerMinute * TicksPerSec

\* RateLimiter._get_tokens: (tokens, now) for a key, read at time `t`
_get_tokens_uncapped(key, t) ==
  IF ~tokens[key].present
    THEN <<burst_limit * ONE, t>>
    ELSE <<tokens[key].tokens + (t - tokens[key].last_update) * requests_per_minute, t>>

_get_tokens(key, t) ==
  IF ~tokens[key].present
    THEN <<burst_limit * ONE, t>>
    ELSE <<Min(burst_limit * ONE,
               tokens[key].tokens + (t - tokens[key].last_update) * requests_per_minute), t>>

\* RateLimiter._update_tokens
_update_tokens_stale(key, tok, last_update) ==
  [tokens EXCEPT ![key] = [present |-> TRUE, tokens |-> tok,
                           last_update |-> IF tokens[key].present
                                             THEN tokens[key].last_update
                                             ELSE last_update]]

_update_tokens(key, tok, last_update) ==
  [tokens EXCEPT ![key] = [present |-> TRUE, tokens |-> tok, last_update |-> last_update]]

\* str(int(tokens)) of X-RateLimit-Remaining
Remaining(tok) == tok \div ONE

\* get_retry_after: (1 - tokens) / rate seconds, as the exact fraction
\* num / (requests_per_minute * TicksPerSec)
RetryAfterNum(tok) == IF tok >= ONE THEN 0 ELSE ONE - tok
\* str(int(retry_after)) of the Retry-After header
RetryAfterHeader(tok) == RetryAfterNum(tok) \div (requests_per_minute * TicksPerSec)

InFlight(k) == {q \in Tasks : pc[q] # "idle" /\ rkey[q] = k}
\* tasks of key k that have not yet passed the admission decision
Undecided(k) == {q \in InFlight(k) : pc[q] \in {"is_allowed", "locked", "got_tokens"}}

RLInit ==
  /\ \E c \in Scenarios :
       /\ requests_per_minute = c.requests_per_minute
       /\ burst_limit = c.burst_limit
       /\ clients = c.clients
       /\ workers = c.workers
  /\ now = 0
  /\ tokens = [k \in Keys |-> NoEntry]
  /\ lock = NoTask
  /\ pc = [p \in Tasks |-> "idle"]
  /\ rkey = [p \in Tasks |-> "10.0.0.1"]
  /\ ltokens = [p \in Tasks |-> 0]
  /\ lnow = [p \in Tasks |-> 0]
  /\ reqCount = 0
  /\ hist = [k \in Keys |-> <<>>]
  /\ resp = [k \in Keys |-> <<>>]
  /\ overlap = [k \in Keys |-> FALSE]
  /\ rej = [k \in Keys |-> NoEntry]
  /\ waited = [p \in Tasks |-> FALSE]

\* time passes
Tick ==
  /\ now < MaxTime
  /\ now' = now + 1
  /\ UNCHANGED <<notRL, requests_per_minute, burst_limit, clients, workers, tokens, lock, pc, rkey,
                 ltokens, lnow, reqCount, hist, resp, overlap, rej, waited>>

\* RateLimitMiddleware.__call__ entered for an http request on a limited path
Arrive(p, k) ==
  /\ pc[p] = "idle"
  /\ p \in workers
  /\ k \in clients
  /\ reqCount < burst_limit + ExtraReq
  /\ reqCount' = reqCount + 1
  /\ pc' = [pc EXCEPT ![p] = "is_allowed"]
  /\ rkey' = [rkey EXCEPT ![p] = k]
  /\ overlap' = [overlap EXCEPT ![k] = @ \/ InFlight(k) # {}]
  /\ waited' = [q \in Tasks |->
                  IF q = p
                    THEN /\ rej[k].present
                         /\ InFlight(k) = {}
                         /\ now - rej[k].at >= rej[k].header * TicksPerSec
                    ELSE IF q \in Undecided(k) THEN FALSE ELSE waited[q]]
  /\ rej' = [rej EXCEPT ![k] = NoEntry]
  /\ UNCHANGED <<notRL, requests_per_minute, burst_limit, clients, workers, now, tokens, lock,
                 ltokens, lnow, hist, resp>>

\* is_allowed: `async with self._lock`
AcquireNoLock(p) ==
  /\ pc[p] = "is_allowed"
  /\ lock' = p
  /\ pc' = [pc EXCEPT ![p] = "locked"]
  /\ UNCHANGED <<notRL, requests_per_minute, burst_limit, clients, workers, now, tokens, rkey,
                 ltokens, lnow, reqCount, hist, resp, overlap, rej, waited>>

Acquire(p) ==
  /\ pc[p] = "is_allowed"
  /\ lock = NoTask
  /\ lock' = p
  /\ pc' = [pc EXCEPT ![p] = "locked"]
  /\ UNCHANGED <<notRL, requests_per_minute, burst_limit, clients, workers, now, tokens, rkey,
                 ltokens, lnow, reqCount, hist, resp, overlap, rej, waited>>

\* is_allowed: tokens, now = await self._get_tokens(key)
ReadTokens(p) ==
  /\ pc[p] = "locked"
  /\ ltokens' = [ltokens EXCEPT ![p] = _get_tokens(rkey[p], now)[1]]
  /\ lnow' = [lnow EXCEPT ![p] = now]
  /\ pc' = [pc EXCEPT ![p] = "got_tokens"]
  /\ UNCHANGED <<notRL, requests_per_minute, burst_limit, clients, workers, now, tokens, lock, rkey,
                 reqCount, hist, resp, overlap, rej, waited>>

\* is_allowed: the admission decision, the update and the release of the lock
DecideNoDeduct(p) ==
  LET k == rkey[p]
      ok == ltokens[p] >= ONE IN
  /\ pc[p] = "got_tokens"
  /\ tokens' = IF ok THEN _update_tokens(k, ltokens[p], lnow[p]) ELSE tokens
  /\ hist' = [hist EXCEPT ![k] = Append(@, [t |-> lnow[p], seen |-> ltokens[p],
                                            allowed |-> ok, waited |-> waited[p]])]
  /\ lock' = IF lock = p THEN NoTask ELSE lock
  /\ pc' = [pc EXCEPT ![p] = IF ok THEN "handler" ELSE "rejected"]
  /\ UNCHANGED <<notRL, requests_per_minute, burst_limit, clients, workers, now, rkey, ltokens, lnow,
                 reqCount, resp, overlap, rej, waited>>

DecideLenient(p) ==
  LET k == rkey[p]
      ok == ltokens[p] >= 0 IN
  /\ pc[p] = "got_tokens"
  /\ tokens' = IF ok THEN _update_tokens(k, ltokens[p] - ONE, lnow[p]) ELSE tokens
  /\ hist' = [hist EXCEPT ![k] = Append(@, [t |-> lnow[p], seen |-> ltokens[p],
                                            allowed |-> ok, waited |-> waited[p]])]
  /\ lock' = IF lock = p THEN NoTask ELSE lock
  /\ pc' = [pc EXCEPT ![p] = IF ok THEN "handler" ELSE "rejected"]
  /\ UNCHANGED <<notRL, requests_per_minute, burst_limit, clients, workers, now, rkey, ltokens, lnow,
                 reqCount, resp, overlap, rej, waited>>

Decide(p) ==
  LET k == rkey[p]
      ok == ltokens[p] >= ONE IN
  /\ pc[p] = "got_tokens"
  /\ tokens' = IF ok THEN _update_tokens(k, ltokens[p] - ONE, lnow[p]) ELSE tokens
  /\ hist' = [hist EXCEPT ![k] = Append(@, [t |-> lnow[p], seen |-> ltokens[p],
                                            allowed |-> ok, waited |-> waited[p]])]
  /\ lock' = IF lock = p THEN NoTask ELSE lock
  /\ pc' = [pc EXCEPT ![p] = IF ok THEN "handler" ELSE "rejected"]
  /\ UNCHANGED <<notRL, requests_per_minute, burst_limit, clients, workers, now, rkey, ltokens, lnow,
                 reqCount, resp, overlap, rej, waited>>

Finish(p) ==
  /\ pc' = [pc EXCEPT ![p] = "idle"]
  /\ ltokens' = [ltokens EXCEPT ![p] = 0]
  /\ lnow' = [lnow EXCEPT ![p] = 0]
  /\ waited' = [waited EXCEPT ![p] = FALSE]

\* __call__, 429 branch: get_retry_after and the JSONResponse
Respond429(p) ==
  LET k == rkey[p]
      tok == _get_tokens(k, now)[1] IN
  /\ pc[p] = "rejected"
  /\ resp' = [resp EXCEPT ![k] = Append(@,
                [status |-> 429, error_type |-> "RateLimitExceeded",
                 retry_after |-> RetryAfterNum(tok),
                 header |-> RetryAfterHeader(tok)])]
  /\ rej' = [rej EXCEPT ![k] =
               IF InFlight(k) = {p}
                 THEN [present |-> TRUE, at |-> now, header |-> RetryAfterHeader(tok)]
                 ELSE NoEntry]
  /\ Finish(p)
  /\ UNCHANGED <<notRL, requests_per_minute, burst_limit, clients, workers, now, tokens, lock, rkey,
                 reqCount, hist, overlap>>

\* __call__, admitted branch: the app answers and send_with_headers stamps
\* the X-RateLimit-* headers on http.response.start
Respond200(p) ==
  LET k == rkey[p]
      tok == _get_tokens(k, now)[1] IN
  /\ pc[p] = "handler"
  /\ resp' = [resp EXCEPT ![k] = Append(@,
                [status |-> 200, limit |-> burst_limit, remaining |-> Remaining(tok)])]
  /\ Finish(p)
  /\ UNCHANGED <<notRL, requests_per_minute, burst_limit, clients, workers, now, tokens, lock, rkey,
                 reqCount, hist, overlap, rej>>

RLNext ==
  \/ Tick
  \/ \E p \in Tasks, k \in Keys : Arrive(p, k)
  \/ \E p \in Tasks : Acquire(p)
  \/ \E p \in Tasks : ReadTokens(p)
  \/ \E p \in Tasks : Decide(p)
  \/ \E p \in Tasks : Respond429(p)
  \/ \E p \in Tasks : Respond200(p)

\* ================================================================ retry
\* Three entry points: the `retryable` decorator of
\* about-us-scraper-service/api/utils/retry.py, and retry_async and
\* RetryContext of api/utils/retry.py.  Delays are counted in units of
\* 1/JitterResolution second.

Impls == {"retryable", "retry_async", "RetryContext"}

\* exception classes the wrapped operation may raise
ErrorClasses == {"RetryableError", "LLMError", "ValueError"}

\* isinstance(e, cls) over the class hierarchy of retry.py
IsInstance(ecls, cls) ==
  \/ ecls = cls
  \/ cls = "Exception"
  \/ cls = "RetryableError" /\ ecls \in {"LLMError", "MediaProcessingError"}

RECURSIVE Pow(_, _)
Pow(b, e) == IF e <= 0 THEN 1 ELSE b * Pow(b, e - 1)

\* what one execution of the operation may do: return, or raise a fresh exception
Outcomes ==
  {[ok |-> TRUE]} \cup
  {[ok |-> FALSE, cls |-> c, id |-> Len(execs) + 1] : c \in ErrorClasses}

\* random.random() in [0, 1) and random.uniform(-0.25, 0.25), on the delay grid:
\* the factors 0.5 + random() and 1 + uniform(), times JitterResolution
DecoratorJitter == ((JitterResolution + 1) \div 2)..((3 * JitterResolution - 1) \div 2)
UniformJitter == ((3 * JitterResolution + 3) \div 4)..((5 * JitterResolution) \div 4)

\* retryable.wrapper: the delay before retrying after the failure of `att` (0-based)
wrapper_delay(att) ==
  LET delay == Min(initial_delay * Pow(exponential_base, att), max_delay) IN
  IF jitter THEN {delay * f : f \in DecoratorJitter}
            ELSE {delay * JitterResolution}

\* calculate_delay(attempt, config), attempt 1-based
calculate_delay_shifted(att) ==
  LET delay == Min(initial_delay * Pow(exponential_base, att), max_delay) IN
  IF jitter THEN {delay * f : f \in UniformJitter}
            ELSE {delay * JitterResolution}

calculate_delay(att) ==
  LET delay == Min(initial_delay * Pow(exponential_base, att - 1), max_delay) IN
  IF jitter THEN {delay * f : f \in UniformJitter}
            ELSE {delay * JitterResolution}

\* retryable.wrapper: `except retryable_exceptions as e`
wrapper_catches(e) == \E c \in retryable_exceptions : IsInstance(e.cls, c)

\* retryable.wrapper: `if attempt == max_attempts - 1: raise`
wrapper_last_attempt_late(att) == att = max_attempts

wrapper_last_attempt(att) == att = max_attempts - 1

\* retry_async: `isinstance(e, RetryableError)`
retry_async_retries_all(e) == TRUE

retry_async_is_retryable(e) == IsInstance(e.cls, "RetryableError")

RetryInit ==
  /\ impl \in Impls
  /\ max_attempts \in 1..MaxAttempts
  /\ initial_delay \in {1, 2}
  /\ max_delay \in {3, 10}
  /\ exponential_base \in {2, 3}
  /\ jitter \in BOOLEAN
  /\ retryable_exceptions \in
       IF impl = "retryable" THEN {{"RetryableError"}, {"LLMError"}}
                             ELSE {{"RetryableError"}}
  /\ rpc = IF impl = "RetryContext" THEN "enter" ELSE "call"
  /\ attempt = IF impl = "retry_async" THEN 1 ELSE 0
  /\ last_exception = NoEntry
  /\ execs = <<>>
  /\ sleeps = <<>>
  /\ raised = NoEntry
  /\ cancelledAt = NoEntry

\* retryable.wrapper: one pass of the loop body, up to the sleep or the exit
WrapperCall ==
  /\ impl = "retryable" /\ rpc = "call"
  /\ \E o \in Outcomes :
       /\ execs' = Append(execs, o)
       /\ IF o.ok
            THEN /\ rpc' = "returned"
                 /\ UNCHANGED <<last_exception, sleeps, raised>>
            ELSE IF ~wrapper_catches(o)
              THEN /\ rpc' = "raised" /\ raised' = o
                   /\ UNCHANGED <<last_exception, sleeps>>
              ELSE /\ last_exception' = o
                   /\ IF wrapper_last_attempt(attempt)
                        THEN /\ rpc' = "raised" /\ raised' = o
                             /\ UNCHANGED sleeps
                        ELSE /\ \E d \in wrapper_delay(attempt) : sleeps' = Append(sleeps, d)
                             /\ rpc' = "sleep"
                             /\ UNCHANGED raised
  /\ UNCHANGED <<notRetry, policyVars, cancelledAt, attempt>>

\* retryable.wrapper: asyncio.sleep returns, the loop goes on or runs out
WrapperWake ==
  /\ impl = "retryable" /\ rpc = "sleep"
  /\ attempt' = attempt + 1
  /\ IF attempt + 1 < max_attempts
       THEN rpc' = "call" /\ UNCHANGED raised
       ELSE rpc' = "raised" /\ raised' = last_exception
  /\ UNCHANGED <<notRetry, policyVars, cancelledAt, last_exception, execs, sleeps>>

\* retry_async: one pass of the loop body
RetryAsyncCall ==
  /\ impl = "retry_async" /\ rpc = "call"
  /\ \E o \in Outcomes :
       /\ execs' = Append(execs, o)
       /\ IF o.ok
            THEN /\ rpc' = "returned"
                 /\ UNCHANGED <<last_exception, sleeps, raised>>
            ELSE /\ last_exception' = o
                 /\ IF ~retry_async_is_retryable(o)
                      THEN /\ rpc' = "raised" /\ raised' = o
                           /\ UNCHANGED sleeps
                      ELSE IF attempt = max_attempts
                        THEN /\ rpc' = "raised" /\ raised' = o
                             /\ UNCHANGED sleeps
                        ELSE /\ \E d \in calculate_delay(attempt) : sleeps' = Append(sleeps, d)
                             /\ rpc' = "sleep"
                             /\ UNCHANGED raised
  /\ UNCHANGED <<notRetry, policyVars, cancelledAt, attempt>>

\* retry_async: asyncio.sleep returns
RetryAsyncWake ==
  /\ impl = "retry_async" /\ rpc = "sleep"
  /\ attempt' = attempt + 1
  /\ IF attempt + 1 <= max_attempts
       THEN rpc' = "call" /\ UNCHANGED raised
       ELSE rpc' = "raised" /\ raised' = last_exception
  /\ UNCHANGED <<notRetry, policyVars, cancelledAt, last_exception, execs, sleeps>>

\* RetryContext.__aenter__; the caller enters the block for the first time, or
\* again after the block was left normally with its body's failure suppressed
ContextEnter ==
  /\ impl = "RetryContext"
  /\ \/ rpc = "enter"
     \/ rpc = "completed" /\ ~execs[Len(execs)].ok
  /\ attempt' = attempt + 1
  /\ rpc' = "body"
  /\ UNCHANGED <<notRetry, policyVars, cancelledAt, last_exception, execs, sleeps, raised>>

\* the body of `async with RetryContext(...)` runs, then __aexit__
ContextBodyExit ==
  /\ impl = "RetryContext" /\ rpc = "body"
  /\ \E o \in Outcomes :
       /\ execs' = Append(execs, o)
       /\ IF o.ok
            THEN /\ rpc' = "completed"
                 /\ UNCHANGED <<sleeps, raised>>
            ELSE IF ~IsInstance(o.cls, "RetryableError") \/ attempt >= max_attempts
              THEN /\ rpc' = "raised" /\ raised' = o
                   /\ UNCHANGED sleeps
              ELSE /\ \E d \in calculate_delay(attempt) : sleeps' = Append(sleeps, d)
                   /\ rpc' = "sleep"
                   /\ UNCHANGED raised
  /\ UNCHANGED <<notRetry, policyVars, cancelledAt, attempt, last_exception>>

\* RetryContext.__aexit__: asyncio.sleep returns and __aexit__ returns True
ContextWake ==
  /\ impl = "RetryContext" /\ rpc = "sleep"
  /\ rpc' = "completed"
  /\ UNCHANGED <<notRetry, policyVars, cancelledAt, attempt, last_exception, execs, sleeps, raised>>

\* asyncio.CancelledError, raised at the await where the task is suspended
CancelledError == [ok |-> FALSE, cls |-> "CancelledError", id |-> 0]

\* the enclosing task is cancelled during the backoff sleep of retryable.wrapper:
\* `await asyncio.sleep(delay)` raises CancelledError inside the except block,
\* which no clause of the wrapper catches
WrapperSleepCancelIgnored ==
  /\ impl = "retryable" /\ rpc = "sleep" /\ ~cancelledAt.present
  /\ cancelledAt' = [present |-> TRUE, execs |-> Len(execs)]
  /\ attempt' = attempt + 1
  /\ rpc' = "call"
  /\ UNCHANGED <<notRetry, policyVars, last_exception, execs, sleeps, raised>>

WrapperSleepCancelled ==
  /\ impl = "retryable" /\ rpc = "sleep" /\ ~cancelledAt.present
  /\ cancelledAt' = [present |-> TRUE, execs |-> Len(execs)]
  /\ rpc' = "raised"
  /\ raised' = CancelledError
  /\ UNCHANGED <<notRetry, policyVars, attempt, last_exception, execs, sleeps>>

\* the same during the backoff sleep of retry_async, which sleeps inside
\* `except Exception`
RetryAsyncSleepCancelled ==
  /\ impl = "retry_async" /\ rpc = "sleep" /\ ~cancelledAt.present
  /\ cancelledAt' = [present |-> TRUE, execs |-> Len(execs)]
  /\ rpc' = "raised"
  /\ raised' = CancelledError
  /\ UNCHANGED <<notRetry, policyVars, attempt, last_exception, execs, sleeps>>

\* the same during the sleep of RetryContext.__aexit__: the CancelledError
\* leaves __aexit__ and replaces the body's exception
ContextSleepCancelled ==
  /\ impl = "RetryContext" /\ rpc = "sleep" /\ ~cancelledAt.present
  /\ cancelledAt' = [present |-> TRUE, execs |-> Len(execs)]
  /\ rpc' = "raised"
  /\ raised' = CancelledError
  /\ UNCHANGED <<notRetry, policyVars, attempt, last_exception, execs, sleeps>>

RetryNext ==
  \/ WrapperSleepCancelled
  \/ RetryAsyncSleepCancelled
  \/ ContextSleepCancelled
  \/ WrapperCall
  \/ WrapperWake
  \/ RetryAsyncCall
  \/ RetryAsyncWake
  \/ ContextEnter
  \/ ContextBodyExit
  \/ ContextWake

\* ================================================================ pagination
\* Paginator.paginate of about-us-scraper-service/api/utils/pagination.py and
\* paginate_items of api/utils/pagination.py.  A JSON text is a sequence of
\* tokens; a cursor string is a sequence of characters, each a base64 character
\* carrying one token, a padding character or a character outside the base64
\* alphabet.

DigitChars == <<"0", "1", "2", "3", "4", "5", "6", "7", "8", "9">>
IsDigit(c) == \E d \in 1..Len(DigitChars) : DigitChars[d] = c
DigitVal(c) == (CHOOSE d \in 1..Len(DigitChars) : DigitChars[d] = c) - 1

\* json.dumps of a non-negative / of any integer
RECURSIVE DigitsText(_)
DigitsText(n) ==
  IF n < Len(DigitChars)
    THEN <<DigitChars[n + 1]>>
    ELSE DigitsText(n \div Len(DigitChars)) \o <<DigitChars[(n % Len(DigitChars)) + 1]>>
IntText(n) == IF n < 0 THEN <<"-">> \o DigitsText(0 - n) ELSE DigitsText(n)

\* json.loads of an integer literal
RECURSIVE DigitsValue(_)
DigitsValue(t) ==
  IF Len(t) = 0 THEN 0
  ELSE DigitsValue(SubSeq(t, 1, Len(t) - 1)) * Len(DigitChars) + DigitVal(t[Len(t)])
IsDigitsText(t) ==
  /\ Len(t) >= 1
  /\ \A i \in 1..Len(t) : IsDigit(t[i])
  /\ Len(t) > 1 => t[1] # "0"
IsIntText(t) ==
  \/ IsDigitsText(t)
  \/ Len(t) >= 2 /\ t[1] = "-" /\ IsDigitsText(Tail(t))
IntValue(t) == IF t[1] = "-" THEN 0 - DigitsValue(Tail(t)) ELSE DigitsValue(t)

\* json.dumps({"offset": n})
JsonDumpsOffset(n) == <<"{", "\"offset\"", ":">> \o IntText(n) \o <<"}">>

\* json.loads: what the text parses to.  kind is "object", "list", "number" or
\* "invalid" (JSONDecodeError); for an object, offkind tells what its "offset"
\* member is: "absent", "int", "str" or "null".
JsonValue(kind, offkind, off) == [kind |-> kind, offkind |-> offkind, off |-> off]
JsonLoads(t) ==
  IF t = <<"{", "}">> THEN JsonValue("object", "absent", 0)
  ELSE IF t = <<"[", "]">> THEN JsonValue("list", "absent", 0)
  ELSE IF IsIntText(t) THEN JsonValue("number", "absent", 0)
  ELSE IF Len(t) >= 5 /\ SubSeq(t, 1, 3) = <<"{", "\"offset\"", ":">> /\ t[Len(t)] = "}"
    THEN LET v == SubSeq(t, 4, Len(t) - 1) IN
         IF IsIntText(v) THEN JsonValue("object", "int", IntValue(v))
         ELSE IF v = <<"null">> THEN JsonValue("object", "null", 0)
         ELSE IF v = <<"\"abc\"">> THEN JsonValue("object", "str", 0)
         ELSE JsonValue("invalid", "absent", 0)
  ELSE JsonValue("invalid", "absent", 0)

\* base64.b64encode(text.encode()).decode(): one base64 character per token,
\* padded with "=" to a whole number of groups
B64Char(tok) == [a |-> "b64", c |-> tok]
PadChar == [a |-> "pad", c |-> "="]
RawChar(ch) == [a |-> "raw", c |-> ch]
PadLen(n) == (B64Group - (n % B64Group)) % B64Group
B64Encode(t) ==
  [i \in 1..Len(t) |-> B64Char(t[i])] \o [i \in 1..PadLen(Len(t)) |-> PadChar]

\* base64.b64decode(cursor): characters outside the alphabet are discarded,
\* what is left must be whole groups (binascii.Error: Incorrect padding)
B64Kept(s) == SelectSeq(s, LAMBDA ch : ch.a # "raw")
B64DecodeOk(s) == Len(B64Kept(s)) % B64Group = 0
B64Decode(s) ==
  LET data == SelectSeq(s, LAMBDA ch : ch.a = "b64") IN
  [i \in 1..Len(data) |-> data[i].c]

\* encode_cursor({"offset": n})
encode_cursor(n) == B64Encode(JsonDumpsOffset(n))

\* no cursor (None); Python's truth value of the cursor argument
NoCursor == <<RawChar("None")>>
Truthy(cursor) == cursor # NoCursor /\ cursor # <<>>

\* json.loads(base64.b64decode(cursor).decode()): the value, "invalid" when
\* either step raises
DecodeJson(cursor) ==
  IF ~B64DecodeOk(cursor) THEN JsonValue("invalid", "absent", 0)
  ELSE JsonLoads(B64Decode(cursor))

\* items[start:end] of a Python list
PyIndex(i, n) == IF i < 0 THEN (IF i + n < 0 THEN 0 ELSE i + n) ELSE Min(i, n)
PySlice(xs, start, end) ==
  LET a == PyIndex(start, Len(xs))
      b == PyIndex(end, Len(xs)) IN
  IF a < b THEN SubSeq(xs, a + 1, b) ELSE <<>>

\* the results of one call
PageError(cursor, err) ==
  [cursor |-> cursor, status |-> err, offset |-> 0, items |-> <<>>,
   has_more |-> FALSE, next_cursor |-> NoCursor]
Page(cursor, offset, page, has_more, next) ==
  [cursor |-> cursor, status |-> "ok", offset |-> offset, items |-> page,
   has_more |-> has_more, next_cursor |-> next]

\* Paginator.paginate, lines 246-263: the page at `offset`
PageAtOverlapping(xs, limit, cursor, offset) ==
  LET end == offset + limit
      has_more == end < Len(xs) IN
  Page(cursor, offset, PySlice(xs, offset, end), has_more,
       IF has_more THEN encode_cursor(end - 1) ELSE NoCursor)

PageAt(xs, limit, cursor, offset) ==
  LET end == offset + limit
      has_more == end < Len(xs) IN
  Page(cursor, offset, PySlice(xs, offset, end), has_more,
       IF has_more THEN encode_cursor(end) ELSE NoCursor)

\* Paginator.paginate(items, cursor) with items_per_page = limit
Paginator_paginate(xs, limit, cursor) ==
  IF ~Truthy(cursor) THEN PageAt(xs, limit, cursor, 0)
  ELSE LET d == DecodeJson(cursor) IN
    IF d.kind = "invalid" THEN PageError(cursor, "PaginationError")
    ELSE IF d.kind # "object" THEN PageError(cursor, "PaginationError")
    ELSE IF d.offkind = "absent" THEN PageAt(xs, limit, cursor, 0)
    ELSE IF d.offkind # "int" THEN PageError(cursor, "TypeError")
    ELSE PageAt(xs, limit, cursor, d.off)

\* api.utils.pagination.paginate_items(items, limit, cursor) and the
\* PaginatedResult it builds
paginate_items(xs, limit, cursor) ==
  LET d == DecodeJson(cursor)
      caught == d.kind # "object"
      start_index == IF ~Truthy(cursor) \/ caught \/ d.offkind = "absent" THEN 0 ELSE d.off
      remaining_count == IF Len(xs) - (start_index + limit) > 0
                           THEN Len(xs) - (start_index + limit) ELSE 0
      has_more == remaining_count > 0 IN
  IF Truthy(cursor) /\ ~caught /\ d.offkind \in {"str", "null"}
    THEN PageError(cursor, "TypeError")
    ELSE Page(cursor, start_index, PySlice(xs, start_index, start_index + limit),
              has_more,
              IF has_more THEN encode_cursor(start_index + limit) ELSE NoCursor)

Paginate(xs, limit, cursor) ==
  IF pgImpl = "Paginator" THEN Paginator_paginate(xs, limit, cursor)
                          ELSE paginate_items(xs, limit, cursor)

\* cursors a client may make up: well-formed ones for any offset, negative
\* offsets included, and malformed ones of every kind
ForgedOffsets == (0 - MaxItems)..(MaxItems + 1)
MalformedCursors ==
  { B64Encode(<<"{", "}">>),
    B64Encode(<<"[", "]">>),
    B64Encode(IntText(1)),
    B64Encode(<<"{", "\"offset\"", ":", "null", "}">>),
    B64Encode(<<"{", "\"offset\"", ":", "\"abc\"", "}">>),
    B64Encode(<<"{", "\"offset\"", ":">>),
    <<B64Char("{"), B64Char("}"), RawChar("-")>>,
    <<RawChar("-"), RawChar("!")>> \o B64Encode(<<"n", "o", "t", "j", "s", "o", "n">>) }
ClientCursors == {encode_cursor(n) : n \in ForgedOffsets} \cup MalformedCursors

PgInit ==
  /\ pgImpl \in {"Paginator", "paginate_items"}
  /\ \E n \in 0..MaxItems : items = [i \in 1..n |-> i]
  /\ items_per_page \in 1..MaxLimit
  /\ pgCursor = NoCursor
  /\ pgState = "ready"
  /\ pages = <<>>
  /\ pgFollowed = TRUE
  /\ pgForged = 0

PgRecord(r) ==
  /\ pages' = Append(pages, r)
  /\ pgCursor' = r.next_cursor
  /\ pgState' = IF r.status # "ok" THEN "failed"
                ELSE IF r.has_more THEN "ready" ELSE "done"

\* the client asks for the first page, then for the page of each next_cursor
FollowCursor ==
  /\ pgState = "ready"
  /\ PgRecord(Paginate(items, items_per_page, pgCursor))
  /\ UNCHANGED <<notPg, pgImpl, items, items_per_page, pgFollowed, pgForged>>

\* the client sends a cursor of its own making
ForgeCursor ==
  /\ pgForged < MaxForged
  /\ \E c \in ClientCursors : PgRecord(Paginate(items, items_per_page, c))
  /\ pgForged' = pgForged + 1
  /\ pgFollowed' = FALSE
  /\ UNCHANGED <<notPg, pgImpl, items, items_per_page>>

PgNext ==
  \/ FollowCursor
  \/ ForgeCursor

\* ================================================================ middleware stack
\* The application assembled in about-us-scraper-service/api/main.py and its
\* TracingMiddleware, ValidationMiddleware and RateLimitMiddleware.

\* identifiers: absent header, empty header value, a value the client sent, or
\* one derived from the k-th uuid4() of the process
NoneId == [origin |-> "none", n |-> 0, form |-> "none"]
EmptyId == [origin |-> "inbound", n |-> 0, form |-> "empty"]
InboundId(j) == [origin |-> "inbound", n |-> j, form |-> "raw"]
Uuid4(k, form) == [origin |-> "uuid4", n |-> k, form |-> form]
\* Python truth value of an Optional[str]
IdTruthy(v) == v # NoneId /\ v # EmptyId

TraceHeaderNames == {"x-request-id", "x-b3-traceid", "x-b3-spanid", "x-b3-parentspanid"}
NoHeaders == [h \in {} |-> NoneId]
\* the trace context variables before set_trace_context
NoContext == [request_id |-> NoneId, trace_id |-> NoneId, parent_id |-> NoneId]

\* TracingMiddleware.generate_ids, with u uuid4() calls made before it
generate_ids_inherit_span(trace_headers, u) ==
  LET r_new == ~IdTruthy(trace_headers["x-request-id"])
      u1 == IF r_new THEN u + 1 ELSE u
      t_new == ~IdTruthy(trace_headers["x-b3-traceid"])
      u2 == IF t_new THEN u1 + 1 ELSE u1
      s_new == ~IdTruthy(trace_headers["x-b3-spanid"]) IN
  [request_id |-> IF r_new THEN Uuid4(u1, "str") ELSE trace_headers["x-request-id"],
   trace_id |-> IF t_new THEN Uuid4(u2, "032x[:16]") ELSE trace_headers["x-b3-traceid"],
   span_id |-> IF s_new THEN Uuid4(u2 + 1, "016x[:16]") ELSE trace_headers["x-b3-spanid"],
   parent_id |-> trace_headers["x-b3-spanid"],
   uuids |-> IF s_new THEN u2 + 1 ELSE u2]

generate_ids(trace_headers, u) ==
  LET r_new == ~IdTruthy(trace_headers["x-request-id"])
      u1 == IF r_new THEN u + 1 ELSE u
      t_new == ~IdTruthy(trace_headers["x-b3-traceid"])
      u2 == IF t_new THEN u1 + 1 ELSE u1 IN
  [request_id |-> IF r_new THEN Uuid4(u1, "str") ELSE trace_headers["x-request-id"],
   trace_id |-> IF t_new THEN Uuid4(u2, "032x[:16]") ELSE trace_headers["x-b3-traceid"],
   span_id |-> Uuid4(u2 + 1, "016x[:16]"),
   parent_id |-> trace_headers["x-b3-spanid"],
   uuids |-> u2 + 1]

\* TracingMiddleware.get_trace_response_headers
get_trace_response_headers(ids) ==
  [h \in {"x-request-id", "x-b3-traceid", "x-b3-spanid"}
         \cup (IF IdTruthy(ids.parent_id) THEN {"x-b3-parentspanid"} ELSE {}) |->
     IF h = "x-request-id" THEN ids.request_id
     ELSE IF h = "x-b3-traceid" THEN ids.trace_id
     ELSE IF h = "x-b3-spanid" THEN ids.span_id
     ELSE ids.parent_id]

\* str.startswith
StartsWith(str, prefix) == Len(str) >= Len(prefix) /\ SubSeq(str, 1, Len(prefix)) = prefix

\* main.py: setup_rate_limiting(exclude_paths=...), setup_validation(allowed_schemes=...)
exclude_paths == {"/health", "/metrics"}
allowed_schemes == {"http", "https"}

\* RateLimitMiddleware.__call__: any(path.startswith(p) for p in exclude_paths)
Excluded(path) == \E p \in exclude_paths : StartsWith(path, p)

\* the Content-Length header: absent, or a string that int() parses or rejects
NoContentLength == [present |-> FALSE, numeric |-> FALSE, value |-> 0]
ContentLength(n) == [present |-> TRUE, numeric |-> TRUE, value |-> n]
BadContentLength == [present |-> TRUE, numeric |-> FALSE, value |-> 0]

\* RequestValidator.validate_content_length: TRUE when it returns an error
validate_content_length(length) == length > max_content_length

\* request bodies: not JSON, or a JSON object with or without a "url"
Body(json, has_url, scheme) == [json |-> json, has_url |-> has_url, scheme |-> scheme]
\* RequestValidator.validate_request_body: TRUE when it returns an error
validate_request_body(body) ==
  \/ ~body.has_url
  \/ body.scheme \notin allowed_schemes

\* the order of the add_middleware calls in main.py
AddOrder == <<"cors", "compression", "tracing", "validation", "rate_limit", "versioning">>
\* add_middleware inserts at the front of user_middleware, and the stack is
\* built so that user_middleware[1] is the outermost: the last one added
\* receives the request first.  CORS, compression and versioning hand these
\* requests on and add none of the headers followed here.
user_middleware == [i \in 1..Len(AddOrder) |-> AddOrder[Len(AddOrder) + 1 - i]]

\* what a stage hands back to the stage outside it
StageResponse(status, reached) ==
  [status |-> status, headers |-> {}, trace |-> NoHeaders, reached |-> reached,
   context |-> NoContext, tokens |-> tokens, uuids |-> uuidCount]

\* RateLimitMiddleware.__call__ around `inner`
RateLimitStageNoExclusion(req, inner) ==
  LET got == _get_tokens(req.key, now) IN
  IF got[1] >= ONE
    THEN [inner EXCEPT !.reached = @ \cup {"rate_limit"},
                       !.tokens = _update_tokens(req.key, got[1] - ONE, got[2]),
                       !.headers = @ \cup {"X-RateLimit-Limit", "X-RateLimit-Remaining",
                                           "X-RateLimit-Reset"}]
    ELSE [StageResponse(429, {"rate_limit"}) EXCEPT !.headers = {"Retry-After"}]

RateLimitStage(req, inner) ==
  LET got == _get_tokens(req.key, now) IN
  IF Excluded(req.path)
    THEN [inner EXCEPT !.reached = @ \cup {"rate_limit"}]
  ELSE IF got[1] >= ONE
    THEN [inner EXCEPT !.reached = @ \cup {"rate_limit"},
                       !.tokens = _update_tokens(req.key, got[1] - ONE, got[2]),
                       !.headers = @ \cup {"X-RateLimit-Limit", "X-RateLimit-Remaining",
                                           "X-RateLimit-Reset"}]
    ELSE [StageResponse(429, {"rate_limit"}) EXCEPT !.headers = {"Retry-After"}]

\* ValidationMiddleware.__call__ around `inner`
ValidationStage(req, inner) ==
  IF req.content_length.present /\ ~req.content_length.numeric
    THEN StageResponse(500, {"validation"})
  ELSE IF req.content_length.present /\ validate_content_length(req.content_length.value)
    THEN StageResponse(413, {"validation"})
  ELSE IF req.method \in {"POST", "PUT"} /\ (~req.body.json \/ validate_request_body(req.body))
    THEN StageResponse(400, {"validation"})
  ELSE [inner EXCEPT !.reached = @ \cup {"validation"}]

\* TracingMiddleware.__call__ around `inner`: set_trace_context, and
\* send_wrapper appends the trace headers to the response start message
TracingStage(req, inner) ==
  LET ids == generate_ids(req.trace, uuidCount) IN
  [inner EXCEPT !.reached = @ \cup {"tracing"},
                !.trace = get_trace_response_headers(ids),
                !.context = [request_id |-> ids.request_id, trace_id |-> ids.trace_id,
                             parent_id |-> ids.parent_id],
                !.uuids = ids.uuids]

\* the request handed to stage i of `stack` (the route handler lies beyond the
\* last stage)
RECURSIVE Through(_, _, _)
Through(stack, i, req) ==
  IF i > Len(stack) THEN StageResponse(200, {"app"})
  ELSE LET inner == Through(stack, i + 1, req) IN
    IF stack[i] = "rate_limit" THEN RateLimitStage(req, inner)
    ELSE IF stack[i] = "validation" THEN ValidationStage(req, inner)
    ELSE IF stack[i] = "tracing" THEN TracingStage(req, inner)
    ELSE [inner EXCEPT !.reached = @ \cup {stack[i]}]

\* requests
Paths == {"/v1/profile", "/health", "/metrics/requests"}
Payloads ==
  { [method |-> "GET", content_length |-> NoContentLength, body |-> Body(FALSE, FALSE, "")],
    [method |-> "GET", content_length |-> BadContentLength, body |-> Body(FALSE, FALSE, "")],
    [method |-> "POST", content_length |-> ContentLength(max_content_length),
     body |-> Body(TRUE, TRUE, "https")],
    [method |-> "POST", content_length |-> ContentLength(max_content_length + 1),
     body |-> Body(TRUE, TRUE, "https")],
    [method |-> "POST", content_length |-> NoContentLength, body |-> Body(FALSE, FALSE, "")],
    [method |-> "POST", content_length |-> NoContentLength, body |-> Body(TRUE, FALSE, "")],
    [method |-> "POST", content_length |-> NoContentLength, body |-> Body(TRUE, TRUE, "ftp")] }
InboundValues(j) == {NoneId, EmptyId, InboundId(j)}
InboundTrace ==
  { [h \in TraceHeaderNames |->
       IF h = "x-request-id" THEN r ELSE IF h = "x-b3-traceid" THEN t
       ELSE IF h = "x-b3-spanid" THEN sp ELSE NoneId] :
    r \in InboundValues(1), t \in InboundValues(2), sp \in InboundValues(3) }
PipelineTrace ==
  { tr \in InboundTrace : \A h \in {"x-b3-traceid", "x-b3-spanid"} :
                            (tr[h] = NoneId) = (tr["x-request-id"] = NoneId)
                            /\ tr[h] # EmptyId /\ tr["x-request-id"] # EmptyId }

Request(k, path, payload, tr) ==
  [key |-> k, path |-> path, method |-> payload.method,
   content_length |-> payload.content_length, body |-> payload.body, trace |-> tr]

NoExchange == [present |-> FALSE]
Exchange(req, out) ==
  [present |-> TRUE, req |-> req, status |-> out.status, headers |-> out.headers,
   trace |-> out.trace, context |-> out.context, reached |-> out.reached,
   tokens_before |-> tokens,
   uuids_before |-> uuidCount]

AppInit ==
  /\ uuidCount = 0
  /\ exchange = NoExchange

\* one request through TracingMiddleware wrapped around a handler
TraceRequest ==
  /\ uuidCount < MaxUuids
  /\ \E tr \in InboundTrace :
       LET req == Request("10.0.0.1", "/v1/profile", CHOOSE p \in Payloads : p.method = "GET"
                                                       /\ ~p.content_length.present, tr)
           out == Through(<<"tracing">>, 1, req) IN
       /\ exchange' = Exchange(req, out)
       /\ uuidCount' = out.uuids
  /\ UNCHANGED <<notApp, rlVars>>

\* one request through the application of main.py
PipelineRequest ==
  /\ reqCount < burst_limit + ExtraReq
  /\ \E k \in clients, path \in Paths, payload \in Payloads, tr \in PipelineTrace :
       LET req == Request(k, path, payload, tr)
           out == Through(user_middleware, 1, req) IN
       /\ exchange' = Exchange(req, out)
       /\ uuidCount' = out.uuids
       /\ tokens' = out.tokens
  /\ reqCount' = reqCount + 1
  /\ UNCHANGED <<notApp, requests_per_minute, burst_limit, clients, workers, now, lock, pc, rkey,
                 ltokens, lnow, hist, resp, overlap, rej, waited>>

TraceNext ==
  \/ TraceRequest

PipelineNext ==
  \/ Tick
  \/ PipelineRequest

\* ================================================================ compression
\* CompressionMiddleware of about-us-scraper-service/api/middleware/compression.py
\* (an ASGI middleware wrapping send) and of api/middleware/compression.py.
\* A header list is a sequence of <<name, value>>; a body message carries
\* [bytes |-> the number of bytes of the handler's content, coding |-> what was
\* applied to them].

\* main.py: setup_compression(excluded_paths=..., excluded_types=...)
excluded_paths == {"/health", "/metrics"}
excluded_types == {"image/", "video/", "audio/", "application/zip", "application/x-gzip",
                   "application/x-brotli", "application/x-rar"}
Supported == <<"br", "gzip", "deflate">>
SupportedSet == {Supported[i] : i \in 1..Len(Supported)}

\* `t in content_type`
Contains(str, sub) ==
  \E i \in 1..(Len(str) + 1 - Len(sub)) : SubSeq(str, i, i + Len(sub) - 1) = sub

\* {k: v for k, v in headers}, listed in the order of .items(): a name keeps
\* the place of its first occurrence and the value of its last
HeaderNames(hs) == {hs[i][1] : i \in 1..Len(hs)}
LastValue(hs, name) ==
  hs[CHOOSE i \in 1..Len(hs) : hs[i][1] = name /\ \A j \in (i + 1)..Len(hs) : hs[j][1] # name][2]
RECURSIVE DictItems(_, _)
DictItems(hs, i) ==
  IF i > Len(hs) THEN <<>>
  ELSE IF \E j \in 1..(i - 1) : hs[j][1] = hs[i][1] THEN DictItems(hs, i + 1)
  ELSE <<<<hs[i][1], LastValue(hs, hs[i][1])>>>> \o DictItems(hs, i + 1)
\* dict(response.headers) of a Starlette Headers: the first value of each name
FirstValue(hs, name) == hs[CHOOSE i \in 1..Len(hs) : hs[i][1] = name /\ \A j \in 1..(i - 1) : hs[j][1] # name][2]
RECURSIVE HeadersDict(_, _)
HeadersDict(hs, i) ==
  IF i > Len(hs) THEN <<>>
  ELSE IF \E j \in 1..(i - 1) : hs[j][1] = hs[i][1] THEN HeadersDict(hs, i + 1)
  ELSE <<<<hs[i][1], FirstValue(hs, hs[i][1])>>>> \o HeadersDict(hs, i + 1)
\* response.headers.get(name, '')
HeaderGet(hs, name) == IF name \in HeaderNames(hs) THEN LastValue(hs, name) ELSE ""

\* should_compress, on the response's header dict
should_compress(req, hs, content_length) ==
  /\ cmImpl = "about_us" => req.accept_encoding.present
  /\ content_length >= minimum_size
  /\ ~\E p \in excluded_paths : StartsWith(req.path, p)
  /\ ~\E t \in excluded_types : Contains(HeaderGet(hs, "content-type"), t)
  /\ HeaderGet(hs, "content-encoding") = ""

\* an Accept-Encoding header: its comma-separated items, each a name and, when
\* it has a ";q=" part, a quality in tenths
Item(name, hasq, q) == [name |-> name, hasq |-> hasq, q |-> q]
NoAcceptEncoding == [present |-> FALSE, items |-> <<>>]
AcceptEncoding(its) == [present |-> TRUE, items |-> its]
\* an encodings dict: the weight of each name, Absent when it is not a key
Absent == 0 - 1
EncodingNames == SupportedSet \cup {"identity", "*", "compress"}
NoEncodings == [n \in EncodingNames |-> Absent]

\* about-us get_accepted_encodings: the loop body for one item
AcceptItem(encs, it) ==
  IF ~it.hasq /\ it.name = "identity" THEN encs
  ELSE IF it.hasq /\ it.q <= 0 THEN encs
  ELSE LET e1 == [encs EXCEPT ![it.name] = IF it.hasq THEN Min(FullQuality, it.q)
                                                      ELSE FullQuality] IN
       IF it.name = "*"
         THEN [n \in EncodingNames |->
                 IF n = "*" THEN Absent
                 ELSE IF n \in SupportedSet /\ e1[n] = Absent THEN e1["*"] ELSE e1[n]]
         ELSE e1
\* api get_accepted_encodings: the loop body for one item
AcceptItemApi(encs, it) ==
  [encs EXCEPT ![it.name] = IF it.hasq THEN it.q ELSE FullQuality]

RECURSIVE AcceptItems(_, _, _)
AcceptItems(encs, its, i) ==
  IF i > Len(its) THEN encs
  ELSE AcceptItems(IF cmImpl = "about_us" THEN AcceptItem(encs, its[i])
                                          ELSE AcceptItemApi(encs, its[i]), its, i + 1)

get_accepted_encodings(req) ==
  LET encs == AcceptItems(NoEncodings, req.accept_encoding.items, 1) IN
  IF cmImpl = "about_us"
    THEN [n \in EncodingNames |-> IF n \in SupportedSet THEN encs[n] ELSE Absent]
    ELSE encs

\* the position of a supported encoding in ['br', 'gzip', 'deflate']
Position(enc) == CHOOSE i \in 1..Len(Supported) : Supported[i] = enc

\* the candidates in the order they are tried.  about-us: sorted(..., key=q,
\* reverse=True), a stable sort of the present encodings; api: the fixed list
Before(encs, a, b) ==
  \/ encs[a] > encs[b]
  \/ encs[a] = encs[b] /\ Position(a) < Position(b)
preferred_encodings(encs) ==
  IF cmImpl = "about_us"
    THEN LET present == {e \in SupportedSet : encs[e] # Absent} IN
         [i \in 1..Cardinality(present) |->
            CHOOSE e \in present : Cardinality({c \in present : Before(encs, c, e)}) = i - 1]
    ELSE SelectSeq(Supported, LAMBDA e : encs[e] # Absent)

\* compress_content succeeds for the encodings not in `failing`; the first
\* candidate for which it does, "" when there is none
FirstCompressing(cands, failing) ==
  IF \E i \in 1..Len(cands) : cands[i] \notin failing
    THEN cands[CHOOSE i \in 1..Len(cands) :
                 cands[i] \notin failing /\ \A j \in 1..(i - 1) : cands[j] \in failing]
    ELSE ""

Bytes(n) == [bytes |-> n, coding |-> "identity"]
Compress(content, enc) == [content EXCEPT !.coding = enc]
Sent(status, hs, body) == [status |-> status, headers |-> hs, body |-> body]

\* the header list of a compressed response
CompressedHeaders(hs, enc) ==
  <<<<"content-encoding", enc>>, <<"content-length", "len(compressed)">>>>
    \o SelectSeq(hs, LAMBDA h : h[1] \notin {"content-encoding", "content-length"})

\* about-us __call__.send_wrapper over the handler's messages: the start
\* message, then response.body[1..n] with more_body set on all but the last
send_wrapper(req, response, failing) ==
  LET n == Len(response.body)
      response_headers == DictItems(response.headers, 1)
      chunked == \E i \in 1..Len(response_headers) :
                   response_headers[i] = <<"transfer-encoding", "chunked">>
      \* the start message has gone out before the last body message
      started == chunked \/ n > 1
      early == IF chunked THEN response.headers ELSE response_headers
      content == response.body[n]
      passed == SubSeq(response.body, 1, n - 1)
      encodings == get_accepted_encodings(req)
      enc == FirstCompressing(preferred_encodings(encodings), failing) IN
  IF ~should_compress(req, response_headers, content.bytes)
       \/ (\A e \in EncodingNames : encodings[e] = Absent)
       \/ enc = ""
    THEN Sent(response.status, early, Append(passed, content))
    ELSE Sent(response.status,
              IF started THEN early ELSE CompressedHeaders(response_headers, enc),
              Append(passed, Compress(content, enc)))

\* the sum of the lengths of the body messages
RECURSIVE TotalBytes(_)
TotalBytes(body) == IF body = <<>> THEN 0 ELSE body[1].bytes + TotalBytes(Tail(body))

\* api __call__: the body is read whole, then one Response is built
api_call(req, response, failing) ==
  LET content == Bytes(TotalBytes(response.body))
      headers == HeadersDict(response.headers, 1)
      encodings == get_accepted_encodings(req)
      enc == FirstCompressing(preferred_encodings(encodings), failing) IN
  IF ~should_compress(req, response.headers, content.bytes) \/ enc = ""
    THEN Sent(response.status, headers, <<content>>)
    ELSE Sent(response.status,
              SelectSeq(headers, LAMBDA h : h[1] \notin {"content-encoding", "content-length",
                                                         "transfer-encoding"})
                \o <<<<"content-encoding", enc>>, <<"content-length", "len(compressed)">>>>,
              <<Compress(content, enc)>>)

\* requests and handler responses
AcceptEncodings ==
  { NoAcceptEncoding,
    AcceptEncoding(<<>>),
    AcceptEncoding(<<Item("identity", FALSE, 0)>>),
    AcceptEncoding(<<Item("br", FALSE, 0)>>),
    AcceptEncoding(<<Item("gzip", FALSE, 0)>>),
    AcceptEncoding(<<Item("deflate", FALSE, 0)>>),
    AcceptEncoding(<<Item("compress", FALSE, 0)>>),
    AcceptEncoding(<<Item("gzip", FALSE, 0), Item("deflate", FALSE, 0), Item("br", FALSE, 0)>>),
    AcceptEncoding(<<Item("br", TRUE, 5), Item("gzip", TRUE, 10)>>),
    AcceptEncoding(<<Item("deflate", FALSE, 0), Item("gzip", TRUE, 5)>>),
    AcceptEncoding(<<Item("deflate", TRUE, 5), Item("gzip", TRUE, 5)>>),
    AcceptEncoding(<<Item("*", TRUE, 5), Item("deflate", FALSE, 0)>>),
    AcceptEncoding(<<Item("*", FALSE, 0)>>),
    AcceptEncoding(<<Item("br", TRUE, 0)>>),
    AcceptEncoding(<<Item("gzip", TRUE, 0), Item("*", FALSE, 0)>>),
    AcceptEncoding(<<Item("*", TRUE, 5), Item("gzip", TRUE, 0)>>) }
CmPaths == {"/v1/profile", "/health"}
BodySizes == {minimum_size - 1, minimum_size}
Bodies ==
  UNION { [1..n -> {Bytes(b) : b \in BodySizes}] : n \in 1..MaxChunks }
HeaderLists ==
  { <<<<"content-type", ct>>>> \o extra :
      ct \in {"application/json", "image/png"},
      extra \in { <<>>,
                  <<<<"content-encoding", "gzip">>>>,
                  <<<<"set-cookie", "a=1">>, <<"set-cookie", "b=2">>>>,
                  <<<<"transfer-encoding", "chunked">>>> } }
Statuses == {200, 404}
CmRequest(path, ae) == [path |-> path, accept_encoding |-> ae]
HandlerResponse(status, hs, body) == [status |-> status, headers |-> hs, body |-> body]

NotCompressed == [present |-> FALSE]

CmInit ==
  /\ cmImpl \in {"about_us", "api"}
  /\ compressed = NotCompressed

\* one response through the middleware, which keeps nothing from one request
\* to the next
CompressResponse ==
  /\ ~compressed.present
  /\ \E path \in CmPaths, ae \in AcceptEncodings, status \in Statuses, hs \in HeaderLists,
        body \in Bodies, failing \in SUBSET SupportedSet :
       LET req == CmRequest(path, ae)
           response == HandlerResponse(status, hs, body) IN
       compressed' = [present |-> TRUE, req |-> req, response |-> response, failing |-> failing,
                      encodings |-> get_accepted_encodings(req),
                      sent |-> IF cmImpl = "about_us" THEN send_wrapper(req, response, failing)
                                                      ELSE api_call(req, response, failing)]
  /\ UNCHANGED <<notCm, cmImpl>>

CmNext ==
  \/ CompressResponse

\* ================================================================ version gate
\* VersionManager.version_middleware of about-us-scraper-service/api/utils/
\* versioning.py and VersionedAPI.handle_request of api/utils/versioning.py.
\* A version is <<major, minor, patch>>.

Versions == {<<a, b, c>> : a \in 0..MaxVersionPart, b \in 0..MaxVersionPart,
                           c \in 0..MaxVersionPart}
\* a path that carries no version
NoVersion == <<>>

\* semver.compare(a, b) < 0
VersionLt(a, b) ==
  \/ a[1] < b[1]
  \/ a[1] = b[1] /\ a[2] < b[2]
  \/ a[1] = b[1] /\ a[2] = b[2] /\ a[3] < b[3]
VersionLe(a, b) == a = b \/ VersionLt(a, b)

\* parse_version("1.0.0") in version_middleware
OldestVersion == <<1, 0, 0>>

\* about-us version_middleware.middleware: "VersionError" or "call_next"
version_middleware(v) ==
  IF v = NoVersion THEN "call_next"
  ELSE IF VersionLt(v, OldestVersion) THEN "VersionError"
  ELSE IF VersionLt(v, min_version) THEN "VersionError"
  ELSE IF VersionLt(max_version, v) THEN "VersionError"
  ELSE "call_next"

\* api VersionManager.is_version_supported
is_version_supported(v) == VersionLe(min_version, v) /\ VersionLt(v, max_version)

\* api VersionedAPI.handle_request: the status of its own answer, or "handler"
handle_request(v) ==
  IF v = NoVersion THEN "400"
  ELSE IF ~is_version_supported(v) THEN "400"
  ELSE IF ~\E h \in handlers : VersionLe(h, v) THEN "404"
  ELSE "handler"

VersionConfigs ==
  { [min |-> <<1, 0, 0>>, max |-> <<2, 0, 0>>],
    [min |-> <<1, 1, 0>>, max |-> <<2, 0, 0>>],
    [min |-> <<0, 1, 0>>, max |-> <<1, 1, 0>>] }

NotGated == [present |-> FALSE]

VerInit ==
  /\ verImpl \in {"about_us", "api"}
  /\ \E c \in VersionConfigs : min_version = c.min /\ max_version = c.max
  /\ handlers \in {{}, {min_version}}
  /\ gated = NotGated

\* one request through the version gate
VersionRequest ==
  /\ \E v \in Versions \cup {NoVersion} :
       gated' = [present |-> TRUE, version |-> v,
                 outcome |-> IF verImpl = "about_us" THEN version_middleware(v)
                                                     ELSE handle_request(v)]
  /\ UNCHANGED <<notVer, verImpl, min_version, max_version, handlers>>

VerNext ==
  \/ VersionRequest

\* ================================================================ API key check
\* RequestValidator.validate_api_key of api/middleware/validation.py.
\* A key is a sequence of characters; None is an absent key.

MinKeyLength == 32
MinKeyBody == 32

NoneKey == [none |-> TRUE]
Key(chars) == [none |-> FALSE, chars |-> chars]

Alnum == {"a", "Z", "7"}
KeyChars == Alnum \cup {"s", "k", "-", "_", "\n"}
IsAlnum(c) == c \in Alnum \cup {"s", "k"}

\* re.match(r"^sk-[a-zA-Z0-9]{32,}$", chars): "$" also matches before one
\* trailing newline
MatchesKeyPattern(chars) ==
  LET n == Len(chars)
      last == IF n > 0 /\ chars[n] = "\n" THEN n - 1 ELSE n IN
  /\ last >= Len(<<"s", "k", "-">>) + MinKeyBody
  /\ SubSeq(chars, 1, Len(<<"s", "k", "-">>)) = <<"s", "k", "-">>
  /\ \A i \in (Len(<<"s", "k", "-">>) + 1)..last : IsAlnum(chars[i])

\* the error message, or "None"
validate_api_key(api_key) ==
  IF api_key.none \/ Len(api_key.chars) = 0 THEN "None"
  ELSE IF Len(api_key.chars) < MinKeyLength THEN "API key is too short"
  ELSE IF ~MatchesKeyPattern(api_key.chars) THEN "Invalid API key format"
  ELSE "None"

RECURSIVE Repeat(_, _)
Repeat(c, n) == IF n = 0 THEN <<>> ELSE <<c>> \o Repeat(c, n - 1)

KeyPrefixes == { <<>>, <<"s", "k", "-">>, <<"s", "k", "_">>, <<"k", "-">> }
KeySuffixes == { <<>>, <<"\n">>, <<"_">> }

\* the keys a caller passes: a prefix, a run of one character, a suffix
ApiKeys ==
  {NoneKey} \cup
  { Key(p \o Repeat(c, n) \o t) :
      p \in KeyPrefixes, c \in KeyChars \ {"\n"}, n \in 0..MaxKeyChars,
      t \in KeySuffixes }

NotKeyed == [present |-> FALSE]

KeyInit == keyed = NotKeyed

ValidateApiKey ==
  /\ ~keyed.present
  /\ \E k \in ApiKeys :
       keyed' = [present |-> TRUE, api_key |-> k, error |-> validate_api_key(k)]
  /\ UNCHANGED notKey

KeyNext ==
  \/ ValidateApiKey

\* ================================================================ ASGI messages
\* The middlewares as ASGI applications: each is called with (scope, receive,
\* send), calls the application it wraps with a send of its own, and may raise.
\* A call is described by the messages it sent to its caller, the exception it
\* raised, the tracing events logged, and what the route handler received.

StartMsg(status, chunked, json) ==
  [type |-> "http.response.start", status |-> status, chunked |-> chunked, json |-> json,
   more_body |-> FALSE]
BodyMsg(more_body) ==
  [type |-> "http.response.body", status |-> 0, chunked |-> FALSE, json |-> FALSE,
   more_body |-> more_body]
\* await JSONResponse(status_code=status, ...)(scope, receive, send)
JSONResponse(status) == <<StartMsg(status, FALSE, TRUE), BodyMsg(FALSE)>>

Returned(sent) ==
  [sent |-> sent, raised |-> "None", log |-> <<>>, got |-> <<>>, invoked |-> FALSE,
   hung |-> FALSE]
Raised(exc) == [Returned(<<>>) EXCEPT !.raised = exc]

\* the http.request messages of a request with a body, as receive() yields them
RequestMsg(n, more_body) == [type |-> "http.request", body |-> n, more_body |-> more_body]
RequestBody == <<RequestMsg(1, TRUE), RequestMsg(2, FALSE)>>

\* Request.stream(): receive() until a message without more_body; the messages
\* read and the ones left in the channel
RECURSIVE StreamEnd(_, _)
StreamEnd(channel, i) ==
  IF i > Len(channel) THEN 0
  ELSE IF ~channel[i].more_body THEN i
  ELSE StreamEnd(channel, i + 1)
Unread(channel) ==
  IF StreamEnd(channel, 1) = 0 THEN <<>>
  ELSE SubSeq(channel, StreamEnd(channel, 1) + 1, Len(channel))

\* the route handler: it reads the request body first when script.reads, then
\* sends script.msgs and raises when script.raises.  With the body already
\* taken from the channel receive() yields http.disconnect, and the read raises,
\* or yields nothing for as long as the client stays connected.
handler(script, channel, server) ==
  IF script.reads /\ StreamEnd(channel, 1) = 0
    THEN IF server = "disconnect"
           THEN [Raised("ClientDisconnect") EXCEPT !.invoked = TRUE]
           ELSE [Returned(<<>>) EXCEPT !.invoked = TRUE, !.hung = TRUE]
    ELSE [Returned(script.msgs) EXCEPT
            !.raised = IF script.raises THEN "Exception" ELSE "None",
            !.got = IF script.reads THEN SubSeq(channel, 1, StreamEnd(channel, 1)) ELSE <<>>,
            !.invoked = TRUE]

\* about-us CompressionMiddleware.__call__.send_wrapper, message by message:
\* `held` is the (response_status, response_headers) last stored
RECURSIVE compression_send(_, _, _, _, _)
compression_send(msgs, i, response_started, held, out) ==
  IF i > Len(msgs) THEN out
  ELSE IF msgs[i].type = "http.response.start"
    THEN IF msgs[i].chunked
           THEN compression_send(msgs, i + 1, TRUE, msgs[i], Append(out, msgs[i]))
           ELSE compression_send(msgs, i + 1, response_started, msgs[i], out)
    ELSE compression_send(msgs, i + 1, TRUE, held,
                          Append(IF response_started THEN out ELSE Append(out, held), msgs[i]))
CompressionCall(inner) ==
  [inner EXCEPT !.sent = compression_send(inner.sent, 1, FALSE, StartMsg(200, FALSE, FALSE), <<>>)]

\* TracingMiddleware.__call__ around `inner`: send_wrapper message by message,
\* then the except clause
RECURSIVE tracing_send(_, _, _, _, _)
tracing_send(inner, i, response_started, out, log) ==
  IF i > Len(inner.sent)
    THEN [inner EXCEPT !.sent = out,
                       !.log = IF inner.raised # "None" THEN Append(log, "request_error")
                                                        ELSE log]
  ELSE IF inner.sent[i].type = "http.response.start"
    THEN tracing_send(inner, i + 1, TRUE, Append(out, inner.sent[i]), log)
  ELSE IF ~response_started
    THEN [inner EXCEPT !.sent = out, !.raised = "RuntimeError",
                       !.log = Append(log, "request_error")]
  ELSE tracing_send(inner, i + 1, response_started, Append(out, inner.sent[i]),
                    Append(log, "request_end"))
TracingCall(req, inner) ==
  IF ~req.client THEN Raised("AttributeError")
  ELSE tracing_send(inner, 1, FALSE, <<>>, <<"request_start">>)

\* ValidationMiddleware.__call__ around `inner`, which is called with the
\* channel as request.json() left it
ValidationReads(req) ==
  /\ ~req.content_length.present
       \/ (req.content_length.numeric /\ ~validate_content_length(req.content_length.value))
  /\ req.method \in {"POST", "PUT"}
ValidationCall(req, inner) ==
  IF req.content_length.present /\ ~req.content_length.numeric
    THEN Returned(JSONResponse(500))
  ELSE IF req.content_length.present /\ validate_content_length(req.content_length.value)
    THEN Returned(JSONResponse(413))
  ELSE IF req.method \in {"POST", "PUT"} /\ (~req.body.json \/ validate_request_body(req.body))
    THEN Returned(JSONResponse(400))
  ELSE IF inner.raised # "None"
    THEN [inner EXCEPT !.sent = @ \o JSONResponse(500), !.raised = "None"]
  ELSE inner

\* RateLimitMiddleware.__call__ around `inner` for a path that is not
\* excluded; req.allowed is the answer of limiter.is_allowed, whose key_func
\* reads request.client.host
RateLimitCall(req, inner) ==
  IF ~req.client THEN Raised("AttributeError")
  ELSE IF ~req.allowed THEN Returned(JSONResponse(429))
  ELSE inner

\* the about-us version gate around `inner`
VersionCall(req, inner) ==
  IF version_middleware(req.version) = "VersionError" THEN Raised("VersionError")
  ELSE inner

\* the application: stack[i] called with `channel` as its receive
RECURSIVE Call(_, _, _, _, _)
Call(stack, i, req, channel, script) ==
  IF i > Len(stack) THEN handler(script, channel, req.server)
  ELSE IF stack[i] = "versioning"
    THEN VersionCall(req, Call(stack, i + 1, req, channel, script))
  ELSE IF stack[i] = "rate_limit"
    THEN RateLimitCall(req, Call(stack, i + 1, req, channel, script))
  ELSE IF stack[i] = "validation"
    THEN ValidationCall(req, Call(stack, i + 1, req,
                                  IF ValidationReads(req) THEN Unread(channel) ELSE channel,
                                  script))
  ELSE IF stack[i] = "tracing"
    THEN TracingCall(req, Call(stack, i + 1, req, channel, script))
  ELSE IF stack[i] = "compression"
    THEN CompressionCall(Call(stack, i + 1, req, channel, script))
  ELSE Call(stack, i + 1, req, channel, script)

\* the handler's messages: up to MaxMsgs of them
ScriptMsgs == {StartMsg(200, FALSE, FALSE), StartMsg(200, TRUE, FALSE), BodyMsg(TRUE),
               BodyMsg(FALSE)}
Scripts ==
  { [msgs |-> m, raises |-> r, reads |-> rd] :
      m \in UNION {[1..n -> ScriptMsgs] : n \in 0..MaxMsgs}, r \in BOOLEAN, rd \in BOOLEAN }
AsgiPayloads ==
  { p \in Payloads : p.method = "GET" \/ ~p.body.json \/ ~validate_request_body(p.body) }
AsgiVersions == {NoVersion, <<1, 0, 0>>, <<2, 0, 1>>}
AsgiRequests ==
  { [method |-> p.method, content_length |-> p.content_length, body |-> p.body,
     version |-> v, client |-> c, allowed |-> a, server |-> sv] :
      p \in AsgiPayloads, v \in AsgiVersions, c \in BOOLEAN, a \in BOOLEAN,
      sv \in {"disconnect", "wait"} }
\* the application of main.py, and each middleware alone around a handler
AsgiStacks == {user_middleware, <<"compression">>, <<"tracing">>, <<"validation">>,
               <<"rate_limit">>}

NotCalled == [present |-> FALSE]

AsgiInit ==
  /\ asgiStack \in AsgiStacks
  /\ asgi = NotCalled

\* one HTTP request handled by the application
AsgiRequest ==
  /\ ~asgi.present
  /\ \E req \in AsgiRequests, script \in Scripts :
       asgi' = [present |-> TRUE, req |-> req, script |-> script,
                out |-> Call(asgiStack, 1, req, RequestBody, script)]
  /\ UNCHANGED <<notAsgi, asgiStack>>

AsgiNext ==
  \/ AsgiRequest

\* ================================================================ specifications
vars == <<rlVars, retryVars, pgVars, appVars, cmVars, verVars, keyed, asgiVars>>

\* no retry run in progress
RetryIdle ==
  /\ impl = "retryable" /\ max_attempts = 1 /\ initial_delay = 1 /\ max_delay = 3
  /\ exponential_base = 2 /\ jitter = FALSE /\ retryable_exceptions = {"RetryableError"}
  /\ rpc = "idle" /\ attempt = 0 /\ last_exception = NoEntry
  /\ execs = <<>> /\ sleeps = <<>> /\ raised = NoEntry /\ cancelledAt = NoEntry

\* a limiter that receives no request
RLIdle ==
  /\ requests_per_minute = 60 /\ burst_limit = 5
  /\ clients = {} /\ workers = {}
  /\ now = 0
  /\ tokens = [k \in Keys |-> NoEntry]
  /\ lock = NoTask
  /\ pc = [p \in Tasks |-> "idle"]
  /\ rkey = [p \in Tasks |-> "10.0.0.1"]
  /\ ltokens = [p \in Tasks |-> 0]
  /\ lnow = [p \in Tasks |-> 0]
  /\ reqCount = 0
  /\ hist = [k \in Keys |-> <<>>]
  /\ resp = [k \in Keys |-> <<>>]
  /\ overlap = [k \in Keys |-> FALSE]
  /\ rej = [k \in Keys |-> NoEntry]
  /\ waited = [p \in Tasks |-> FALSE]

\* no pagination in progress
PgIdle ==
  /\ pgImpl = "Paginator" /\ items = <<>> /\ items_per_page = 1
  /\ pgCursor = NoCursor /\ pgState = "idle" /\ pages = <<>>
  /\ pgFollowed = TRUE /\ pgForged = 0

\* no request handled by the application yet
AppIdle == AppInit

\* no response compressed yet
CmIdle == cmImpl = "about_us" /\ compressed = NotCompressed

\* no request through the version gate yet
VerIdle ==
  /\ verImpl = "about_us" /\ min_version = <<1, 0, 0>> /\ max_version = <<2, 0, 0>>
  /\ handlers = {} /\ gated = NotGated
  /\ KeyInit

\* no ASGI call yet
AsgiIdle == asgiStack = user_middleware /\ asgi = NotCalled

\* the rate limiter and its middleware
Init == RLInit /\ RetryIdle /\ PgIdle /\ AppIdle /\ CmIdle /\ VerIdle /\ AsgiIdle
Spec == Init /\ [][RLNext]_vars

\* the retry entry points
InitRetry == RLIdle /\ RetryInit /\ PgIdle /\ AppIdle /\ CmIdle /\ VerIdle /\ AsgiIdle
SpecRetry == InitRetry /\ [][RetryNext]_vars

\* pagination
InitPg == RLIdle /\ RetryIdle /\ PgInit /\ AppIdle /\ CmIdle /\ VerIdle /\ AsgiIdle
SpecPg == InitPg /\ [][PgNext]_vars

\* TracingMiddleware on its own
InitTrace == RLIdle /\ RetryIdle /\ PgIdle /\ AppInit /\ CmIdle /\ VerIdle /\ AsgiIdle
SpecTrace == InitTrace /\ [][TraceNext]_vars

\* the application of main.py
InitPipeline == RLInit /\ burst_limit = 1 /\ RetryIdle /\ PgIdle /\ AppInit /\ CmIdle /\ VerIdle /\ AsgiIdle
SpecPipeline == InitPipeline /\ [][PipelineNext]_vars

\* the compression middleware
InitCm == RLIdle /\ RetryIdle /\ PgIdle /\ AppIdle /\ CmInit /\ VerIdle /\ AsgiIdle
SpecCm == InitCm /\ [][CmNext]_vars

\* the version gate
InitVer == RLIdle /\ RetryIdle /\ PgIdle /\ AppIdle /\ CmIdle /\ VerInit /\ KeyInit /\ AsgiIdle
SpecVer == InitVer /\ [][VerNext]_vars

\* the API key check
InitKey == RLIdle /\ RetryIdle /\ PgIdle /\ AppIdle /\ CmIdle /\ VerIdle /\ AsgiIdle
SpecKey == InitKey /\ [][KeyNext]_vars

\* the middlewares as ASGI applications
InitAsgi == RLIdle /\ RetryIdle /\ PgIdle /\ AppIdle /\ CmIdle /\ VerIdle /\ AsgiInit
SpecAsgi == InitAsgi /\ [][AsgiNext]_vars

\* ------------------------------------------------------------------ claims
\* first index of the run of checks of key k, ending at j, that read the same time
RunStart(k, j) ==
  CHOOSE i \in 1..j :
    /\ \A m \in i..j : hist[k][m].t = hist[k][j].t
    /\ (i = 1 \/ hist[k][i - 1].t # hist[k][j].t)

\* last admitted check of key k before check j, 0 when there is none
PrevAdmit(k, j) ==
  IF \E i \in 1..(j - 1) : hist[k][i].allowed
    THEN CHOOSE i \in 1..(j - 1) :
           /\ hist[k][i].allowed
           /\ \A m \in (i + 1)..(j - 1) : ~hist[k][m].allowed
    ELSE 0

\* C1: is_allowed is atomic per check.  Among the checks of one key that read
\* the same time (no time elapses between them), in any interleaving of the
\* request tasks, the i-th one is admitted exactly when i <= m, where m is the
\* number of whole tokens the first of them found: min(k, m) of k calls are
\* admitted, and each admitted call finds one token less than the admitted
\* call before it (no token is spent twice).
C1_AtomicCheck ==
  \A k \in Keys : \A j \in 1..Len(hist[k]) :
    LET i == RunStart(k, j) IN
      /\ hist[k][j].allowed <=> (j - i) < (hist[k][i].seen \div ONE)
      /\ hist[k][j].seen = hist[k][i].seen - Min(j - i, hist[k][i].seen \div ONE) * ONE

\* two requests of one key in flight together with one whole token in the
\* bucket: the first is admitted, the second rejected
C1_Witness ==
  \E k \in Keys : \E p, q \in Tasks :
    /\ p # q /\ rkey[p] = k /\ rkey[q] = k
    /\ pc[p] = "handler" /\ pc[q] = "rejected"
    /\ Len(hist[k]) >= 2
    /\ LET n == Len(hist[k]) IN
         /\ hist[k][n - 1].t = hist[k][n].t
         /\ hist[k][n - 1].allowed /\ hist[k][n - 1].seen \div ONE = 1
         /\ ~hist[k][n].allowed

\* C2: for a key not seen before, of n consecutive is_allowed calls with no
\* elapsed time the first burst_limit are admitted and every later one is
\* rejected: min(n, burst_limit) admissions.
C2_BurstThenReject ==
  \A k \in Keys : \A j \in 1..Len(hist[k]) :
    hist[k][j].t = hist[k][1].t => (hist[k][j].allowed <=> j <= burst_limit)

C2_Witness ==
  \E k \in Keys :
    /\ Len(hist[k]) > burst_limit
    /\ hist[k][Len(hist[k])].t = hist[k][1].t
    /\ ~hist[k][Len(hist[k])].allowed
    /\ Cardinality({j \in 1..Len(hist[k]) : hist[k][j].allowed}) = burst_limit

\* C3: in every reachable state the stored token count of every key lies in
\* [0, burst_limit], and so does every X-RateLimit-Remaining value sent.
C3_TokensInRange ==
  /\ \A k \in Keys : tokens[k].present =>
       /\ tokens[k].tokens >= 0
       /\ tokens[k].tokens <= burst_limit * ONE
  /\ \A k \in Keys : \A j \in 1..Len(resp[k]) :
       resp[k][j].status = 200 =>
         /\ resp[k][j].remaining >= 0
         /\ resp[k][j].remaining <= burst_limit

\* an empty stored bucket whose refill since last_update exceeds the capacity,
\* after a response that reported a full bucket
C3_Witness ==
  \E k \in Keys :
    /\ tokens[k].present /\ tokens[k].tokens = 0
    /\ tokens[k].tokens + (now - tokens[k].last_update) * requests_per_minute
         > burst_limit * ONE
    /\ \E j \in 1..Len(resp[k]) :
         resp[k][j].status = 200 /\ resp[k][j].remaining = burst_limit

\* C4: requests_per_minute = 60, burst_limit = 5, one client sending its
\* requests one after the other: when the limiter checks the 6th request less
\* than one second after it checked the 1st, requests 1..5 were answered 200
\* with X-RateLimit-Remaining 4, 3, 2, 1, 0 and request 6 is answered 429 with
\* a Retry-After header and error_type "RateLimitExceeded".
C4_EndToEnd ==
  \A k \in Keys :
    ( /\ requests_per_minute = 60 /\ burst_limit = 5
      /\ ~overlap[k]
      /\ Len(hist[k]) >= 6
      /\ hist[k][6].t - hist[k][1].t < TicksPerSec )
    => /\ Len(resp[k]) >= 5
       /\ \A j \in 1..5 : resp[k][j].status = 200 /\ resp[k][j].remaining = 5 - j
       /\ ~hist[k][6].allowed
       /\ Len(resp[k]) >= 6 =>
            /\ resp[k][6].status = 429
            /\ resp[k][6].error_type = "RateLimitExceeded"
            /\ resp[k][6].header >= 0

\* six answered requests, the last checked after the first but within the second
C4_Witness ==
  \E k \in Keys :
    /\ requests_per_minute = 60 /\ burst_limit = 5 /\ ~overlap[k]
    /\ Len(resp[k]) = 6
    /\ hist[k][6].t > hist[k][1].t
    /\ hist[k][6].t - hist[k][1].t < TicksPerSec
    /\ resp[k][6].status = 429

\* C5: a request rejected with Retry-After = d is admitted when the client
\* sends its next request d seconds (or more) after the 429, no other request
\* of the key arriving in between.
C5_RetryAfterSuffices ==
  \A k \in Keys : \A j \in 1..Len(hist[k]) :
    hist[k][j].waited => hist[k][j].allowed

\* C6: a check of a key whose stored count c was stored t seconds before, with
\* nothing stored for the key since, finds min(burst_limit, c + t * rate)
\* tokens; never more than burst_limit.
C6_Refill ==
  \A k \in Keys : \A j \in 2..Len(hist[k]) :
    LET i == PrevAdmit(k, j) IN
      i # 0 =>
        /\ hist[k][j].seen =
             Min(burst_limit * ONE,
                 (hist[k][i].seen - ONE)
                   + (hist[k][j].t - hist[k][i].t) * requests_per_minute)
        /\ hist[k][j].seen <= burst_limit * ONE

\* one check that found a partial refill and one whose refill was capped
C6_Witness ==
  \E k \in Keys : \E j, m \in 2..Len(hist[k]) :
    LET i == PrevAdmit(k, j)
        n == PrevAdmit(k, m) IN
      /\ i # 0 /\ n # 0
      /\ hist[k][j].t > hist[k][i].t
      /\ hist[k][j].seen > hist[k][i].seen - ONE
      /\ hist[k][j].seen < burst_limit * ONE
      /\ (hist[k][n].seen - ONE) + (hist[k][m].t - hist[k][n].t) * requests_per_minute
           > burst_limit * ONE
      /\ hist[k][m].seen = burst_limit * ONE

\* the retryable-error test of the entry point in use
Retryable(e) ==
  IF impl = "retryable" THEN wrapper_catches(e) ELSE IsInstance(e.cls, "RetryableError")

Failed(i) == ~execs[i].ok
LoopImpl == impl \in {"retryable", "retry_async"}
AllRetryableFailures ==
  /\ execs # <<>>
  /\ \A i \in 1..Len(execs) : Failed(i) /\ Retryable(execs[i])

\* C7: retry exhaustion (the decorator and retry_async, max_attempts >= 1, the
\* task not cancelled).  An operation that fails with a retryable error on every attempt is invoked at
\* most max_attempts times and the run never returns normally; when the run
\* ends the operation was invoked exactly max_attempts times, the wrapper slept
\* exactly max_attempts - 1 times, and the exception raised to the caller is the
\* very exception of the last invocation.
C7_RetryExhaustion ==
  (LoopImpl /\ AllRetryableFailures /\ ~cancelledAt.present) =>
    /\ rpc # "returned"
    /\ Len(execs) <= max_attempts
    /\ rpc \in {"call", "sleep", "raised"}
    /\ rpc = "call" => Len(execs) < max_attempts /\ Len(sleeps) = Len(execs)
    /\ rpc = "raised" =>
         /\ Len(execs) = max_attempts
         /\ Len(sleeps) = max_attempts - 1
         /\ raised = execs[Len(execs)]

\* an exhausted run of more than one attempt
C7_Witness ==
  /\ LoopImpl /\ AllRetryableFailures /\ ~cancelledAt.present
  /\ rpc = "raised"
  /\ max_attempts >= 2
  /\ Len(execs) = max_attempts

\* C8: a failure that is not retryable is propagated at once (the decorator and
\* retry_async): the failing invocation is the last one, no sleep follows it,
\* the run has ended with that same exception raised to the caller; when it is
\* the first invocation that fails so, the operation was invoked exactly once
\* and nothing slept, whatever max_attempts is.
C8_FatalPropagates ==
  LoopImpl =>
    \A i \in 1..Len(execs) :
      (Failed(i) /\ ~Retryable(execs[i])) =>
        /\ i = Len(execs)
        /\ Len(sleeps) = i - 1
        /\ rpc = "raised"
        /\ raised = execs[i]

\* a non-retryable failure on the first invocation with attempts to spare, and
\* one after an earlier retryable failure
C8_Witness ==
  /\ LoopImpl
  /\ max_attempts >= 2
  /\ execs # <<>>
  /\ Len(execs) < max_attempts
  /\ Failed(Len(execs)) /\ ~Retryable(execs[Len(execs)])
  /\ rpc = "raised"

\* C9: with jitter = false (the decorator and retry_async) the k-th sleep is
\* exactly min(initial_delay * exponential_base^(k-1), max_delay), and there is
\* one sleep, in that order, for each failed retryable attempt that has
\* attempts remaining.
C9_DeterministicDelays ==
  (LoopImpl /\ ~jitter) =>
    /\ \A k \in 1..Len(sleeps) :
         sleeps[k] = JitterResolution *
                       Min(initial_delay * Pow(exponential_base, k - 1), max_delay)
    /\ Len(sleeps) =
         Cardinality({i \in 1..Len(execs) :
                        Failed(i) /\ Retryable(execs[i]) /\ i < max_attempts})

\* two sleeps, the second one capped at max_delay
C9_Witness ==
  /\ LoopImpl /\ ~jitter
  /\ Len(sleeps) >= 2
  /\ initial_delay * exponential_base > max_delay
  /\ sleeps[2] = JitterResolution * max_delay
  /\ sleeps[1] < sleeps[2]

\* C10: no entry point (decorator, retry_async, RetryContext) completes
\* normally after an execution of the operation that failed and was not
\* followed by a successful one; such a run, unless cancelled, ends with that
\* failure raised.
C10_NeverSwallows ==
  /\ rpc \in {"returned", "completed"} => execs[Len(execs)].ok
  /\ (rpc = "raised" /\ ~cancelledAt.present) => raised = execs[Len(execs)]

\* C11: when the enclosing task is cancelled during a backoff sleep (the only
\* suspension point between two attempts), the loop aborts: the operation is
\* not invoked again and the CancelledError, not a retry error, is what the
\* entry point raises.
C11_CancellationAborts ==
  cancelledAt.present =>
    /\ Len(execs) = cancelledAt.execs
    /\ rpc = "raised"
    /\ raised = CancelledError

\* a loop cancelled in its backoff sleep with attempts still to go
C11_Witness ==
  /\ LoopImpl
  /\ cancelledAt.present
  /\ Len(execs) < max_attempts
  /\ Len(sleeps) = Len(execs)
  /\ rpc = "raised"

\* ---------------------------------------------------------------- pagination
\* the items of the first n pages, one after the other
RECURSIVE PagesConcat(_)
PagesConcat(n) == IF n = 0 THEN <<>> ELSE PagesConcat(n - 1) \o pages[n].items

\* the number of pages a sequence of n items has at page size l
PageCount(n, l) == IF n = 0 THEN 1 ELSE (n + l - 1) \div l

\* C12: starting with no cursor and following each returned next_cursor, every
\* call succeeds, each page begins at the offset where the previous page ended
\* (the first at 0), the pages returned so far are a prefix of the sequence,
\* the walk ends within ceil(N / L) calls (one call for an empty sequence), and
\* once has_more is false the concatenation of the pages is the whole sequence.
C12_RoundTrip ==
  pgFollowed =>
    /\ \A i \in 1..Len(pages) :
         /\ pages[i].status = "ok"
         /\ pages[i].offset = Len(PagesConcat(i - 1))
         /\ pages[i].has_more => Len(pages[i].items) = items_per_page
    /\ Len(PagesConcat(Len(pages))) <= Len(items)
    /\ PagesConcat(Len(pages)) = SubSeq(items, 1, Len(PagesConcat(Len(pages))))
    /\ Len(pages) <= PageCount(Len(items), items_per_page)
    /\ pgState \in {"ready", "done"}
    /\ pgState = "ready" => Len(pages) < PageCount(Len(items), items_per_page)
    /\ pgState = "done" => PagesConcat(Len(pages)) = items

\* a walk of three pages, the last one short, has ended
C12_Witness ==
  /\ pgFollowed
  /\ pgImpl = "Paginator"
  /\ pgState = "done"
  /\ Len(pages) >= 3
  /\ Len(pages[Len(pages)].items) < items_per_page
  /\ PagesConcat(Len(pages)) = items

\* a cursor that is the base64 encoding of a JSON object with an integer offset
WellFormedCursor(c) == \E n \in ForgedOffsets : c = encode_cursor(n)

\* C13: a call made with a cursor that is present and is not the base64
\* encoding of a JSON object carrying an integer offset fails with
\* PaginationError, and returns no page.
C13_MalformedReported ==
  \A i \in 1..Len(pages) :
    (pages[i].cursor # NoCursor /\ ~WellFormedCursor(pages[i].cursor)) =>
      /\ pages[i].status = "PaginationError"
      /\ pages[i].items = <<>>

\* C14: every offset a call uses after decoding its cursor is >= 0, whatever
\* cursor the client sent, and a call whose cursor carries an offset at or
\* beyond the length of the sequence returns an empty page with has_more false
\* and no next_cursor, not an error.
C14_OffsetInRange ==
  \A i \in 1..Len(pages) :
    /\ pages[i].status = "ok" => pages[i].offset >= 0
    /\ \A n \in ForgedOffsets :
         (pages[i].cursor = encode_cursor(n) /\ n >= Len(items)) =>
           /\ pages[i].status = "ok"
           /\ pages[i].items = <<>>
           /\ ~pages[i].has_more
           /\ pages[i].next_cursor = NoCursor

\* ---------------------------------------------------------------- middleware stack
RateLimitHeaders == {"X-RateLimit-Limit", "X-RateLimit-Remaining", "X-RateLimit-Reset"}
\* what lies directly inside a stage of the application
Downstream(stage) ==
  LET i == CHOOSE j \in 1..Len(user_middleware) : user_middleware[j] = stage IN
  IF i = Len(user_middleware) THEN "app" ELSE user_middleware[i + 1]

\* C15: after a request that validation rejected with 400 or 413, the limiter
\* was not consulted and its stored state is what it was before the request.
C15_ValidationBeforeRateLimit ==
  (exchange.present /\ exchange.status \in {400, 413}) =>
    /\ "rate_limit" \notin exchange.reached
    /\ tokens = exchange.tokens_before

\* C16: every response of the application carries x-request-id, x-b3-traceid
\* and x-b3-spanid, whatever stage produced it and whatever the path.
C16_TraceHeadersOnEveryResponse ==
  exchange.present =>
    {"x-request-id", "x-b3-traceid", "x-b3-spanid"} \subseteq DOMAIN exchange.trace

\* C17: a request whose path is on the limiter's exclude list is handed to the
\* application the limiter wraps and is not answered 429, whatever the tokens
\* of its key; the stored state of every key is left as it was and the
\* response carries no X-RateLimit-* header.
C17_ExcludedPathsBypass ==
  (exchange.present /\ Excluded(exchange.req.path)) =>
    /\ Downstream("rate_limit") \in exchange.reached
    /\ exchange.status # 429
    /\ tokens = exchange.tokens_before
    /\ exchange.headers \cap RateLimitHeaders = {}

\* an excluded path answered 200 while the key of the request has no token left
C17_Witness ==
  /\ exchange.present
  /\ exchange.req.path = "/metrics/requests"
  /\ exchange.status = 200
  /\ "app" \in exchange.reached
  /\ tokens[exchange.req.key].present
  /\ _get_tokens(exchange.req.key, now)[1] < ONE

\* an identifier made from a uuid4() drawn while handling the last request
Fresh(v) == v.origin = "uuid4" /\ v.n > exchange.uuids_before /\ v.n <= uuidCount

\* C18: the request id and the trace id are the inbound x-request-id and
\* x-b3-traceid when the client supplied one (a non-empty value), and fresh
\* otherwise; the span id is fresh and is not the inbound x-b3-spanid; the
\* parent id is the inbound x-b3-spanid (none when absent); the response
\* carries these identifiers, and x-b3-parentspanid only when there is a parent
\* id, which it then equals.
C18_TracePropagation ==
  exchange.present =>
    LET inb == exchange.req.trace
        out == exchange.trace
        ctx == exchange.context IN
    /\ {"x-request-id", "x-b3-traceid", "x-b3-spanid"} \subseteq DOMAIN out
    /\ IF IdTruthy(inb["x-request-id"])
         THEN ctx.request_id = inb["x-request-id"] ELSE Fresh(ctx.request_id)
    /\ IF IdTruthy(inb["x-b3-traceid"])
         THEN ctx.trace_id = inb["x-b3-traceid"] ELSE Fresh(ctx.trace_id)
    /\ Fresh(out["x-b3-spanid"])
    /\ out["x-b3-spanid"] # inb["x-b3-spanid"]
    /\ out["x-b3-spanid"] \notin {ctx.request_id, ctx.trace_id}
    /\ ctx.request_id # ctx.trace_id
    /\ ctx.parent_id = inb["x-b3-spanid"]
    /\ out["x-request-id"] = ctx.request_id
    /\ out["x-b3-traceid"] = ctx.trace_id
    /\ ("x-b3-parentspanid" \in DOMAIN out) = IdTruthy(ctx.parent_id)
    /\ "x-b3-parentspanid" \in DOMAIN out => out["x-b3-parentspanid"] = ctx.parent_id

\* a later request that supplies a trace id and a span id but no request id
C18_Witness ==
  /\ exchange.present
  /\ exchange.uuids_before > 0
  /\ exchange.req.trace["x-request-id"] = NoneId
  /\ exchange.req.trace["x-b3-traceid"] = InboundId(2)
  /\ exchange.req.trace["x-b3-spanid"] = InboundId(3)
  /\ exchange.trace["x-b3-parentspanid"] = InboundId(3)
  /\ exchange.trace["x-request-id"].origin = "uuid4"

\* ---------------------------------------------------------------- compression
\* the handler's response meets one of the skip conditions
SkipCondition ==
  LET req == compressed.req
      hs == compressed.response.headers IN
  \/ TotalBytes(compressed.response.body) < minimum_size
  \/ \E p \in excluded_paths : StartsWith(req.path, p)
  \/ \E i \in 1..Len(hs) : hs[i][1] = "content-type" /\ \E t \in excluded_types : Contains(hs[i][2], t)
  \/ \E i \in 1..Len(hs) : hs[i][1] = "content-encoding"

\* the bytes sent are the handler's bytes
BodyUntouched ==
  /\ \A i \in 1..Len(compressed.sent.body) : compressed.sent.body[i].coding = "identity"
  /\ TotalBytes(compressed.sent.body) = TotalBytes(compressed.response.body)

\* C19: when the body is shorter than minimum_size, or the path is excluded,
\* or the content-type matches an excluded type, or the response already
\* declares a content-encoding, what the middleware sends has the status, the
\* headers and the bytes of the handler's response.
C19_SkipUnmodified ==
  (compressed.present /\ cmImpl = "about_us" /\ SkipCondition) =>
    /\ compressed.sent.status = compressed.response.status
    /\ compressed.sent.headers = compressed.response.headers
    /\ BodyUntouched

\* the encodings the client accepts, and the one that comes first among those
\* that compress: by descending weight, br before gzip before deflate on ties
Accepted == {e \in SupportedSet : compressed.encodings[e] > 0}
Compressing == Accepted \ compressed.failing
Preferred(a, b) ==
  \/ compressed.encodings[a] > compressed.encodings[b]
  \/ compressed.encodings[a] = compressed.encodings[b] /\ Position(a) < Position(b)
BestEncoding == CHOOSE e \in Compressing : \A c \in Compressing \ {e} : Preferred(e, c)

\* C20: for a response that meets no skip condition, asked for with an
\* Accept-Encoding header: when some accepted encoding compresses, the body is
\* sent in the one that comes first by descending weight (br, gzip, deflate on
\* ties) and content-encoding names it; when none does, the handler's bytes
\* are sent with no content-encoding; the status is the handler's either way.
C20_EncodingSelection ==
  (compressed.present /\ ~SkipCondition /\ compressed.req.accept_encoding.present) =>
    /\ compressed.sent.status = compressed.response.status
    /\ IF Compressing # {}
         THEN /\ \A i \in 1..Len(compressed.sent.body) :
                   compressed.sent.body[i].coding = BestEncoding
              /\ TotalBytes(compressed.sent.body) = TotalBytes(compressed.response.body)
              /\ \E i \in 1..Len(compressed.sent.headers) :
                   compressed.sent.headers[i] = <<"content-encoding", BestEncoding>>
         ELSE /\ BodyUntouched
              /\ \A i \in 1..Len(compressed.sent.headers) :
                   compressed.sent.headers[i][1] # "content-encoding"

\* ---------------------------------------------------------------- rate limiter, stored state
\* C25: every is_allowed call stores the (tokens, last_update) pair of its
\* key: after a rejected call the key's entry holds the time of that call and
\* the token count the call computed, with nothing deducted.
C25_RejectionStores ==
  \A k \in Keys :
    (Len(hist[k]) > 0 /\ ~hist[k][Len(hist[k])].allowed) =>
      /\ tokens[k].present
      /\ tokens[k].last_update = hist[k][Len(hist[k])].t
      /\ tokens[k].tokens = hist[k][Len(hist[k])].seen

\* ---------------------------------------------------------------- version gate
\* C22: a request whose path carries a version below min_version, or at or
\* above max_version, is rejected and the wrapped handler is not invoked; a
\* version from min_version up to, not including, max_version is not rejected.
C22_VersionRange ==
  (gated.present /\ gated.version # NoVersion) =>
    LET inside == VersionLe(min_version, gated.version)
                  /\ VersionLt(gated.version, max_version) IN
    (gated.outcome \in {"VersionError", "400"}) = ~inside

\* ---------------------------------------------------------------- API key check
\* C23: validate_api_key returns None for an absent (None or empty) key and for
\* a key that is sk- followed by at least 32 alphanumerics; for every other key,
\* keys shorter than 32 characters included, it returns "Invalid API key format".
C23_ApiKeyErrors ==
  keyed.present =>
    LET k == keyed.api_key
        wellFormed ==
          /\ ~k.none
          /\ Len(k.chars) >= Len(<<"s", "k", "-">>) + MinKeyBody
          /\ SubSeq(k.chars, 1, Len(<<"s", "k", "-">>)) = <<"s", "k", "-">>
          /\ \A i \in (Len(<<"s", "k", "-">>) + 1)..Len(k.chars) : IsAlnum(k.chars[i])
        absent == k.none \/ Len(k.chars) = 0 IN
    keyed.error = IF absent \/ wellFormed THEN "None" ELSE "Invalid API key format"

\* the weight an Accept-Encoding item carries, Absent for q <= 0
ItemWeight(it) ==
  IF ~it.hasq THEN FullQuality
  ELSE IF it.q <= 0 THEN Absent
  ELSE Min(FullQuality, it.q)
\* the weight the header gives a supported encoding: that of its own entry when
\* it is listed, that of the wildcard entry otherwise
HeaderWeight(its, n) ==
  LET own == {i \in 1..Len(its) : its[i].name = n}
      wild == {i \in 1..Len(its) : its[i].name = "*"} IN
  IF own # {} THEN ItemWeight(its[CHOOSE i \in own : \A j \in own : j <= i])
  ELSE IF wild # {} THEN ItemWeight(its[CHOOSE i \in wild : \A j \in wild : j <= i])
  ELSE Absent

\* C28: the parsed Accept-Encoding has only br, gzip and deflate as keys; an
\* entry with q <= 0 is dropped; an encoding listed in the header has its own
\* weight, whatever a wildcard says, and an unlisted one has the wildcard's.
C28_AcceptEncodingParse ==
  compressed.present =>
    \A n \in EncodingNames :
      compressed.encodings[n] =
        IF n \in SupportedSet THEN HeaderWeight(compressed.req.accept_encoding.items, n)
        ELSE Absent

\* C21: a streaming response of the about-us middleware (transfer-encoding:
\* chunked, or a body sent in several messages) comes out as the handler sent
\* it: the same status, the same header list, the same body messages in order.
Streaming ==
  \/ \E i \in 1..Len(compressed.response.headers) :
       compressed.response.headers[i] = <<"transfer-encoding", "chunked">>
  \/ Len(compressed.response.body) > 1
C21_StreamingBypass ==
  (compressed.present /\ cmImpl = "about_us" /\ Streaming) =>
    /\ compressed.sent.status = compressed.response.status
    /\ compressed.sent.headers = compressed.response.headers
    /\ compressed.sent.body = compressed.response.body

\* C27: a response that went out compressed has exactly one content-encoding
\* header, naming the encoding applied, one content-length header, that of the
\* compressed body, and no transfer-encoding header; the status and the other
\* headers are the handler's.
Applied == {compressed.sent.body[i].coding : i \in 1..Len(compressed.sent.body)} \ {"identity"}
Framing == {"content-encoding", "content-length", "transfer-encoding"}
ValuesOf(hs, name) == SelectSeq(hs, LAMBDA h : h[1] = name)
C27_CompressedHeaders ==
  (compressed.present /\ Applied # {}) =>
    /\ compressed.sent.status = compressed.response.status
    /\ \E enc \in Applied :
         ValuesOf(compressed.sent.headers, "content-encoding") = <<<<"content-encoding", enc>>>>
    /\ ValuesOf(compressed.sent.headers, "content-length")
         = <<<<"content-length", "len(compressed)">>>>
    /\ ValuesOf(compressed.sent.headers, "transfer-encoding") = <<>>
    /\ SelectSeq(compressed.sent.headers, LAMBDA h : h[1] \notin Framing)
         = SelectSeq(compressed.response.headers, LAMBDA h : h[1] \notin Framing)

\* ---------------------------------------------------------------- ASGI messages
Starts(msgs) == SelectSeq(msgs, LAMBDA m : m.type = "http.response.start")
\* the handler answers as ASGI prescribes: one start message, then body
\* messages of which the last one alone has more_body unset, or a beginning of
\* that cut short by an exception
OrderlyHandler ==
  LET m == asgi.script.msgs
      n == Len(m) IN
  /\ \A i \in 1..n : (m[i].type = "http.response.start") = (i = 1)
  /\ \A i \in 2..n : m[i].more_body = (i < n)
  /\ ~asgi.script.raises => n >= 2

\* C24: a call of the application of main.py for a request that the version
\* gate lets through raises nothing, and when the handler raised, what the
\* client gets is the generic 500 JSON response.
C24_NoExceptionEscapes ==
  (asgi.present /\ asgiStack = user_middleware /\ OrderlyHandler
     /\ version_middleware(asgi.req.version) # "VersionError") =>
    /\ asgi.out.raised = "None"
    /\ (asgi.out.invoked /\ asgi.script.raises /\ ~asgi.out.hung) =>
         asgi.out.sent = JSONResponse(500)

\* C26: the tracing middleware logs request_start first and then exactly one
\* terminal event: request_error when the handler raised, request_end when it
\* sent its response; alone around a handler, it raises what the handler raised.
C26_TraceLifecycle ==
  (asgi.present /\ asgi.out.log # <<>> /\ OrderlyHandler /\ ~asgi.out.hung) =>
    LET handlerRaised == asgi.script.raises \/ (asgi.script.reads /\ asgi.out.got = <<>>) IN
    /\ asgi.out.log = <<"request_start",
                        IF handlerRaised THEN "request_error" ELSE "request_end">>
    /\ (asgiStack = <<"tracing">> /\ asgi.script.raises) => asgi.out.raised = "Exception"

\* C29: what a middleware alone around an orderly handler forwards has at most
\* one http.response.start, no http.response.body ahead of it, and exactly one
\* start when the middleware returns.
C29_OneStartFirst ==
  (asgi.present /\ Len(asgiStack) = 1 /\ OrderlyHandler) =>
    LET out == asgi.out IN
    /\ Len(Starts(out.sent)) <= 1
    /\ out.sent # <<>> => out.sent[1].type = "http.response.start"
    /\ (out.raised = "None" /\ ~out.hung) => Len(Starts(out.sent)) = 1

\* C30: a handler invoked behind the validation middleware for a POST or PUT
\* request whose body was accepted receives the whole request body when it
\* reads it, and its response goes out.
C30_BodyStillReadable ==
  (asgi.present /\ asgiStack = <<"validation">> /\ asgi.req.method \in {"POST", "PUT"}
     /\ asgi.out.invoked /\ asgi.script.reads /\ OrderlyHandler /\ ~asgi.script.raises) =>
    /\ asgi.out.got = RequestBody
    /\ ~asgi.out.hung
    /\ asgi.out.sent = asgi.script.msgs

====
